---- MODULE Spec2Model ----
(***************************************************************************)
(* Client-side behaviour layer of the Elyra Premium Seaters site:          *)
(* NavigationSystem (hash router), FormHandler (contact form), Calculator, *)
(* InputValidator, SecurityFramework.checkRateLimit and Security.debounce, *)
(* on top of the browser's event loop (one task at a time, the microtask   *)
(* queue drained after every task).                                        *)
(*                                                                         *)
(* Every handler is a function from a state record to a state record; an   *)
(* action applies one handler to the current state.                        *)
(***************************************************************************)
EXTENDS Integers, Sequences, FiniteSets, TLC

VARIABLES
    currentPage,    \* NavigationSystem.currentPage
    lastRequested,  \* argument of the latest navigateTo call ("none" before the first)
    hash,           \* window.location.hash without the leading '#'
    content,        \* page whose markup is in <main> ("blank" before the first render)
    navCurrent,     \* set of nav links carrying aria-current="page"
    effects,        \* side effects of the latest navigateTo, in the order they happened
    lastLoad,       \* outcome of the latest loadPageContent: none | pending | ok | failed
    errorLogged,    \* console.error called by the latest loadPageContent
    uncaught,       \* an unhandled promise rejection has reached the top level
    tasks,          \* queued window events (load, hashchange)
    microtasks,     \* promise continuations waiting for the call stack to empty
    formHandlers,   \* FormHandler instances whose document-level listeners are registered
    calcMounted,    \* a Calculator is bound to the inputs now in <main>
    form,           \* the contact form now in <main>
    inflight,       \* pending timers of processFormSubmission, oldest first
    notification,   \* the .global-notification element, "none" when absent
    notifOrigin,    \* who showed the notification: none | sync | attached | detached
    notifTimers,    \* pending auto-remove timers, oldest first: current = its notification
                    \* is the one displayed, after = submission timers that fire before it
    rateLimitStore, \* SecurityFramework.rateLimitStore
    now,            \* Date.now() in ms since the scripts ran
    clearDue,       \* the setInterval callback of initializeRateLimiting is due
    rateCalls,      \* record of the checkRateLimit calls (see NoRateCalls)
    debounce,       \* one function returned by Security.debounce (see NoDebounce)
    calc,           \* the calculator elements in <main> and the Calculator runs (see NoCalc)
    probe,          \* the latest direct call of an InputValidator function (see NoProbe)
    navSource       \* the listener that made the latest navigateTo call: none | event | click

vars == <<currentPage, lastRequested, hash, content, navCurrent, effects, lastLoad, errorLogged,
          uncaught, tasks, microtasks, formHandlers, calcMounted, form, inflight,
          notification, notifOrigin, notifTimers, rateLimitStore, now, clearDue,
          rateCalls, debounce, calc, probe, navSource>>

(***************************************************************************)
(* Bounds of the model.                                                    *)
(***************************************************************************)
MaxHandlers == 2
MaxInflight == 2
MaxTimers == 2
MaxTasks == 1
MaxTicks == 1
MaxCalcUses == 2
MaxLimit == 3
MaxCalls == 4
MaxLateMs == 1
MaxEvents == 3
MaxSteps == 7
MaxRuns == 2

(***************************************************************************)
(* Program constants.                                                      *)
(***************************************************************************)
WindowMs == 60000
ClearIntervalMs == 60000
FormLimit == 3
CalcLimit == 10
TickMs == ClearIntervalMs
DebounceWaitMs == 300
DebounceStepMs == DebounceWaitMs \div 3
InputArgs == {"a", "b"}

validPages == {"home", "solutions", "models", "calculator", "contact"}
NavLinks == {"home", "solutions", "models", "calculator", "contact"}
DataPages == {"home", "calculator", "contact", "solutions", "models"}
HashInputs == validPages \cup {"", "bogus"}
RateKeys == {"form_submission", "calculator_usage"}
ButtonLabel == "Get Free Premium Assessment"
SendingLabel == "Sending..."

\* The fields of the contact form in document order. A value is kept as what
\* validateField can tell of it: "empty" (nothing left after trim), "valid"
\* (accepted by the validator of the field's type) or "invalid"
FieldOrder == <<"name", "email", "phone", "businessType", "vehicleCount", "message">>
FieldNames == {FieldOrder[i] : i \in DOMAIN FieldOrder}
RequiredFields == {"name", "email", "phone", "businessType", "vehicleCount"}
TypedFields == {"name", "email", "phone"}
FieldValues(n) == IF n \in TypedFields THEN {"empty", "valid", "invalid"}
                  ELSE {"empty", "valid"}
AllEmpty == [n \in FieldNames |-> "empty"]
AllValid == [n \in FieldNames |-> "valid"]
OneInvalid == [AllValid EXCEPT !["email"] = "invalid"]
FormFills == {AllEmpty, AllValid, OneInvalid}

\* typed is the text in each field (field.value, a sequence of characters),
\* values what validateField can tell of that text
NoText == [n \in FieldNames |-> <<>>]
NoForm == [exists |-> FALSE, values |-> AllEmpty, typed |-> NoText, errors |-> {},
           disabled |-> FALSE, loading |-> FALSE, text |-> ButtonLabel]
FreshForm == [exists |-> TRUE, values |-> AllEmpty, typed |-> NoText, errors |-> {},
              disabled |-> FALSE, loading |-> FALSE, text |-> ButtonLabel]
NoEntry == [count |-> 0, timestamp |-> 0]
EmptyStore == [k \in RateKeys |-> NoEntry]

\* What a caller that probes checkRateLimit has seen: the limit it passes, per
\* key the results since the latest periodic clear (sinceClear) and since the
\* entry of the key was last absent (log), whether the key was being refused
\* when its entry was last removed, and the latest call
NoRateCalls == [limit |-> 0,
                sinceClear |-> [k \in RateKeys |-> <<>>],
                log |-> [k \in RateKeys |-> <<>>],
                wasRefused |-> [k \in RateKeys |-> FALSE],
                last |-> [key |-> "none", ok |-> TRUE, evicted |-> {}]]

St == [currentPage |-> currentPage, lastRequested |-> lastRequested, hash |-> hash, content |-> content,
       navCurrent |-> navCurrent, effects |-> effects, lastLoad |-> lastLoad,
       errorLogged |-> errorLogged, uncaught |-> uncaught, tasks |-> tasks,
       microtasks |-> microtasks, formHandlers |-> formHandlers,
       calcMounted |-> calcMounted, form |-> form, inflight |-> inflight,
       notification |-> notification, notifOrigin |-> notifOrigin,
       notifTimers |-> notifTimers, rateLimitStore |-> rateLimitStore,
       now |-> now, clearDue |-> clearDue, rateCalls |-> rateCalls,
       debounce |-> debounce, calc |-> calc, probe |-> probe, navSource |-> navSource]

Apply(r) ==
    /\ currentPage' = r.currentPage
    /\ lastRequested' = r.lastRequested
    /\ hash' = r.hash
    /\ content' = r.content
    /\ navCurrent' = r.navCurrent
    /\ effects' = r.effects
    /\ lastLoad' = r.lastLoad
    /\ errorLogged' = r.errorLogged
    /\ uncaught' = r.uncaught
    /\ tasks' = r.tasks
    /\ microtasks' = r.microtasks
    /\ formHandlers' = r.formHandlers
    /\ calcMounted' = r.calcMounted
    /\ form' = r.form
    /\ inflight' = r.inflight
    /\ notification' = r.notification
    /\ notifOrigin' = r.notifOrigin
    /\ notifTimers' = r.notifTimers
    /\ rateLimitStore' = r.rateLimitStore
    /\ now' = r.now
    /\ clearDue' = r.clearDue
    /\ rateCalls' = r.rateCalls
    /\ debounce' = r.debounce
    /\ calc' = r.calc
    /\ probe' = r.probe
    /\ navSource' = r.navSource

(***************************************************************************)
(* SecurityFramework.checkRateLimit                                        *)
(***************************************************************************)
CleanOld(store, t) ==
    [k \in RateKeys |->
        IF store[k].count > 0 /\ store[k].timestamp < t - WindowMs
        THEN NoEntry ELSE store[k]]

\* Variant of checkRateLimit: the limit test is count > maxRequests
checkRateLimitOffByOne(store, key, maxRequests, t) ==
    LET cleaned == CleanOld(store, t)
        existing == cleaned[key]
    IN  IF existing.count = 0
        THEN [ok |-> TRUE,
              store |-> [cleaned EXCEPT ![key] = [count |-> 1, timestamp |-> t]]]
        ELSE IF existing.count > maxRequests
        THEN [ok |-> FALSE, store |-> cleaned]
        ELSE [ok |-> TRUE,
              store |-> [cleaned EXCEPT ![key] =
                            [count |-> existing.count + 1, timestamp |-> t]]]

\* Variant of checkRateLimit: the entry is refreshed before the limit test, so
\* a refused call moves the timestamp of its key
checkRateLimitTouchesRefused(store, key, maxRequests, t) ==
    LET cleaned == CleanOld(store, t)
        existing == cleaned[key]
    IN  IF existing.count = 0
        THEN [ok |-> TRUE,
              store |-> [cleaned EXCEPT ![key] = [count |-> 1, timestamp |-> t]]]
        ELSE IF existing.count >= maxRequests
        THEN [ok |-> FALSE,
              store |-> [cleaned EXCEPT ![key] = [count |-> existing.count, timestamp |-> t]]]
        ELSE [ok |-> TRUE,
              store |-> [cleaned EXCEPT ![key] =
                            [count |-> existing.count + 1, timestamp |-> t]]]

\* Variant of checkRateLimit: the first call of a key starts the store anew
checkRateLimitNewStore(store, key, maxRequests, t) ==
    LET cleaned == CleanOld(store, t)
        existing == cleaned[key]
    IN  IF existing.count = 0
        THEN [ok |-> TRUE,
              store |-> [EmptyStore EXCEPT ![key] = [count |-> 1, timestamp |-> t]]]
        ELSE IF existing.count >= maxRequests
        THEN [ok |-> FALSE, store |-> cleaned]
        ELSE [ok |-> TRUE,
              store |-> [cleaned EXCEPT ![key] =
                            [count |-> existing.count + 1, timestamp |-> t]]]

checkRateLimit(store, key, maxRequests, t) ==
    LET cleaned == CleanOld(store, t)
        existing == cleaned[key]
    IN  IF existing.count = 0
        THEN [ok |-> TRUE,
              store |-> [cleaned EXCEPT ![key] = [count |-> 1, timestamp |-> t]]]
        ELSE IF existing.count >= maxRequests
        THEN [ok |-> FALSE, store |-> cleaned]
        ELSE [ok |-> TRUE,
              store |-> [cleaned EXCEPT ![key] =
                            [count |-> existing.count + 1, timestamp |-> t]]]

\* Variant of clearRateLimitStore: the interval callback leaves the entries
keepRateLimitStore(store) == store

\* this.rateLimitStore.clear() of the setInterval callback
clearRateLimitStore(store) == EmptyStore

(***************************************************************************)
(* Security.debounce(func, wait)                                           *)
(***************************************************************************)
\* The closure of one debounced function: clock is the time in ms, timers the
\* pending setTimeout calls of the closure, oldest first, timeoutLive tells
\* that the variable timeout names the newest of them, and hist lists the
\* events that called the debounced function and the calls of func
NoDebounce == [clock |-> 0, timers |-> <<>>, timeoutLive |-> FALSE, hist |-> <<>>]

\* clearTimeout(timeout)
clearTimeout(d) ==
    IF d.timeoutLive
    THEN [d EXCEPT !.timers = SubSeq(@, 1, Len(@) - 1), !.timeoutLive = FALSE]
    ELSE d

\* Variant of executedFunction: no clearTimeout before the new setTimeout
executedWithoutClear(d, arg, wait) ==
    [d EXCEPT !.timers = Append(@, [due |-> d.clock + wait, arg |-> arg]),
              !.timeoutLive = TRUE,
              !.hist = Append(@, [kind |-> "event", at |-> d.clock, arg |-> arg])]

\* executedFunction(...args): clearTimeout(timeout); timeout = setTimeout(later, wait)
executedFunction(d, arg, wait) ==
    LET d1 == clearTimeout(d)
    IN  [d1 EXCEPT !.timers = Append(@, [due |-> d.clock + wait, arg |-> arg]),
                   !.timeoutLive = TRUE,
                   !.hist = Append(@, [kind |-> "event", at |-> d.clock, arg |-> arg])]

\* later(), the callback of the oldest pending timer: clearTimeout(timeout),
\* which does nothing when timeout names the timer that is firing, then
\* func(...args)
later(d) ==
    LET fired == Head(d.timers)
        d1 == IF Len(d.timers) = 1
              THEN [d EXCEPT !.timers = <<>>, !.timeoutLive = FALSE]
              ELSE clearTimeout([d EXCEPT !.timers = Tail(@)])
    IN  [d1 EXCEPT !.hist = Append(@, [kind |-> "call", at |-> d.clock, arg |-> fired.arg])]

(***************************************************************************)
(* InputValidator                                                          *)
(***************************************************************************)
\* A string is the sequence of its characters. A JavaScript value is a
\* string, null, undefined, a number (a non-negative integer here) or an
\* array that holds one string
Str(chars) == [type |-> "string", chars |-> chars, num |-> 0]
Null == [type |-> "null", chars |-> <<>>, num |-> 0]
Undefined == [type |-> "undefined", chars |-> <<>>, num |-> 0]
Num(n) == [type |-> "number", chars |-> <<>>, num |-> n]
Arr(chars) == [type |-> "array", chars |-> chars, num |-> 0]
Bool(b) == [type |-> "boolean", chars |-> <<>>, num |-> IF b THEN 1 ELSE 0]

\* what a call gives: the value it returns, or the TypeError it throws
Returned(v) == [threw |-> FALSE, value |-> v]
Thrown == [threw |-> TRUE, value |-> Undefined]

Letters == {"a", "b", "c", "d", "e", "f", "g", "h", "i", "j", "k", "l", "m",
            "n", "o", "p", "q", "r", "s", "t", "u", "v", "w", "x", "y", "z",
            "A", "B", "C", "D", "E", "F", "G", "H", "I", "J", "K", "L", "M",
            "N", "O", "P", "Q", "R", "S", "T", "U", "V", "W", "X", "Y", "Z"}
DigitChars == <<"0", "1", "2", "3", "4", "5", "6", "7", "8", "9">>
Digit == {DigitChars[i] : i \in DOMAIN DigitChars}
Alnum == Letters \cup Digit
\* the characters \s matches and trim() removes (those of them the model uses)
Whitespace == {" ", "\t", "\n"}
\* the character class of the local part of emailRegex, without the grave
\* accent, which no string of the model contains
EmailLocal == Alnum \cup {".", "!", "#", "$", "%", "&", "'", "*", "+", "/", "=", "?",
                          "^", "_", "{", "|", "}", "~", "-"}
\* the character class of the regular expression of validateName
NameChars == Letters \cup Whitespace \cup {"-", "'"}

\* the decimal text of a non-negative integer
RECURSIVE Decimal(_)
Decimal(n) ==
    IF n < 10 THEN <<DigitChars[n + 1]>>
    ELSE Append(Decimal(n \div 10), DigitChars[(n % 10) + 1])

\* String(value), the conversion RegExp.prototype.test applies to its argument
StringOf(v) ==
    CASE v.type = "string" -> v.chars
      [] v.type = "null" -> <<"n", "u", "l", "l">>
      [] v.type = "undefined" -> <<"u", "n", "d", "e", "f", "i", "n", "e", "d">>
      [] v.type = "number" -> Decimal(v.num)
      [] v.type = "array" -> v.chars

RECURSIVE trimStart(_)
trimStart(str) ==
    IF str # <<>> /\ Head(str) \in Whitespace THEN trimStart(Tail(str)) ELSE str

RECURSIVE trimEnd(_)
trimEnd(str) ==
    IF str # <<>> /\ str[Len(str)] \in Whitespace
    THEN trimEnd(SubSeq(str, 1, Len(str) - 1)) ELSE str

\* String.prototype.trim
trim(str) == trimEnd(trimStart(str))

\* str.replace(/c/g, by) for a single character c
RECURSIVE replaceAll(_, _, _)
replaceAll(str, c, by) ==
    IF str = <<>> THEN <<>>
    ELSE (IF Head(str) = c THEN by ELSE <<Head(str)>>) \o replaceAll(Tail(str), c, by)

\* str.replace(/\s/g, '')
RECURSIVE removeWhitespace(_)
removeWhitespace(str) ==
    IF str = <<>> THEN <<>>
    ELSE (IF Head(str) \in Whitespace THEN <<>> ELSE <<Head(str)>>)
         \o removeWhitespace(Tail(str))

AllIn(str, class) == \A i \in DOMAIN str : str[i] \in class

StartsWith(str, p) == Len(str) >= Len(p) /\ SubSeq(str, 1, Len(p)) = p

After(str, p) == SubSeq(str, Len(p) + 1, Len(str))

\* [a-zA-Z0-9](?:[a-zA-Z0-9-]{0,61}[a-zA-Z0-9])? matches the whole of label
matchesLabel(label) ==
    /\ Len(label) >= 1 /\ Len(label) <= 63
    /\ label[1] \in Alnum /\ label[Len(label)] \in Alnum
    /\ AllIn(label, Alnum \cup {"-"})

\* label(?:\.label)*$ matches the whole of domain
RECURSIVE matchesDomain(_)
matchesDomain(domain) ==
    \E n \in 1..Len(domain) :
        /\ matchesLabel(SubSeq(domain, 1, n))
        /\ \/ n = Len(domain)
           \/ /\ n + 1 < Len(domain)
              /\ domain[n + 1] = "."
              /\ matchesDomain(SubSeq(domain, n + 2, Len(domain)))

\* emailRegex.test(str)
matchesEmail(str) ==
    \E at \in DOMAIN str :
        /\ str[at] = "@"
        /\ at > 1
        /\ AllIn(SubSeq(str, 1, at - 1), EmailLocal)
        /\ matchesDomain(SubSeq(str, at + 1, Len(str)))

validateEmail(email) == Returned(Bool(matchesEmail(StringOf(email))))

\* the alternatives of (\+?254|0)? in phoneRegex
PhonePrefixes == {<<>>, <<"+", "2", "5", "4">>, <<"2", "5", "4">>, <<"0">>}
\* Variant: the plus sign of the international prefix is required, (\+254|0)?
PhonePrefixesPlusRequired == {<<>>, <<"+", "2", "5", "4">>, <<"0">>}

\* /^(prefix)?[17]\d{8}$/.test(str), for the alternatives of the prefix
matchesPhone(str, prefixes) ==
    \E p \in prefixes :
        /\ StartsWith(str, p)
        /\ LET rest == After(str, p)
           IN  /\ Len(rest) = 9
               /\ rest[1] \in {"1", "7"}
               /\ AllIn(rest, Digit)

\* Variant of validatePhone: phoneRegex is /^(\+254|0)?[17]\d{8}$/
validatePhonePlusRequired(phone) ==
    IF phone.type # "string" THEN Thrown
    ELSE Returned(Bool(matchesPhone(removeWhitespace(phone.chars), PhonePrefixesPlusRequired)))

\* phone.replace(...): null and undefined have no properties, a number and an
\* array have no replace method; the call throws a TypeError for them
validatePhone(phone) ==
    IF phone.type # "string" THEN Thrown
    ELSE Returned(Bool(matchesPhone(removeWhitespace(phone.chars), PhonePrefixes)))

validateName(name) ==
    Returned(Bool(/\ name.type = "string"
                  /\ Len(trim(name.chars)) >= 2
                  /\ Len(trim(name.chars)) <= 50
                  /\ name.chars # <<>>
                  /\ AllIn(name.chars, NameChars)))

\* Variant of sanitizeInput: the replacement of the slash is left out
sanitizeInputKeepsSlash(input) ==
    IF input.type # "string" THEN Returned(Str(<<>>))
    ELSE Returned(Str(
            replaceAll(replaceAll(replaceAll(replaceAll(
                trim(input.chars),
                "<", <<"&", "l", "t", ";">>),
                ">", <<"&", "g", "t", ";">>),
                "\"", <<"&", "q", "u", "o", "t", ";">>),
                "'", <<"&", "#", "x", "2", "7", ";">>)))

sanitizeInput(input) ==
    IF input.type # "string" THEN Returned(Str(<<>>))
    ELSE Returned(Str(
            replaceAll(replaceAll(replaceAll(replaceAll(replaceAll(
                trim(input.chars),
                "<", <<"&", "l", "t", ";">>),
                ">", <<"&", "g", "t", ";">>),
                "\"", <<"&", "q", "u", "o", "t", ";">>),
                "'", <<"&", "#", "x", "2", "7", ";">>),
                "/", <<"&", "#", "x", "2", "F", ";">>)))

\* validateField on the text of a field: nothing left after trim(), or the
\* verdict of the validator of the field's type on the trimmed text
classOf(n, text) ==
    LET value == Str(trim(text))
        ok == CASE n = "name" -> validateName(value)
                [] n = "email" -> validateEmail(value)
                [] n = "phone" -> validatePhone(value)
                [] OTHER -> Returned(Bool(TRUE))
    IN  IF value.chars = <<>> THEN "empty"
        ELSE IF ok.value = Bool(TRUE) THEN "valid" ELSE "invalid"

\* a text of each kind for every field; the selects hold an option value
SampleText(n, c) ==
    IF c = "empty" THEN <<>>
    ELSE CASE n = "name" -> IF c = "valid" THEN <<"O", "'", "N", "e", "i", "l">>
                            ELSE <<"A", "l", "1">>
           [] n = "email" -> IF c = "valid" THEN <<"a", "@", "b", ".", "c", "o", "m">>
                             ELSE <<"a", "@">>
           [] n = "phone" -> IF c = "valid" THEN <<"0">> \o Decimal(712345678)
                             ELSE Decimal(12345)
           [] n = "businessType" -> <<"o", "t", "h", "e", "r">>
           [] n = "vehicleCount" -> <<"1", "-", "3">>
           [] n = "message" -> <<"a", "/", "b">>

\* a direct call of one of the four functions: its name, its argument and
\* what the call gave
NoProbe == [fn |-> "none", input |-> Undefined, result |-> Returned(Undefined)]

(***************************************************************************)
(* Calculator                                                              *)
(***************************************************************************)
\* The value of a number input is the empty string, <<>>, or the decimal
\* text of a number n, <<n>>; the select holds one of its option values.
\* inputs are the values of the four controls, pending the inputs whose
\* debounced listener has a timer running, errors the controls with an inline
\* error, results the text of the five result elements (shown is FALSE as
\* long as the text of the template is displayed).
\* runs counts the validateAndCalculate runs and calls the calculateSavings
\* calls since the elements were rendered; lastArgs and lastResult are the
\* argument and the return value of the latest calculateSavings call, lastRun
\* how the latest validateAndCalculate run ended: none | refused (by the rate
\* limit) | invalid (an input was rejected) | calculated
NumberInputs == {"currentDiesel", "monthlyKm", "vehicleCount"}
NoArgs == [dieselCost |-> 0, monthlyKm |-> 0, vehicleCount |-> 0, ppaModel |-> ""]
NoResult == [currentMonthlyCost |-> 0, newMonthlyCost |-> 0, monthlySavings |-> 0,
             savingsPercent |-> [num |-> 0, den |-> 1], annualSavings |-> 0]
NoDisplay == [shown |-> FALSE, currentCost |-> 0, newCost |-> 0, savings |-> 0,
              savingsPercent |-> 0, annualSavings |-> 0]
NoCalc == [exists |-> FALSE,
           inputs |-> [currentDiesel |-> <<>>, monthlyKm |-> <<>>, vehicleCount |-> <<>>,
                       ppaModel |-> ""],
           pending |-> {}, errors |-> {}, results |-> NoDisplay,
           runs |-> 0, calls |-> 0, lastArgs |-> NoArgs, lastResult |-> NoResult,
           lastRun |-> "none"]
FreshCalc == [NoCalc EXCEPT !.exists = TRUE]

\* parseFloat(element.value)
parseFloat(v) == IF v = <<>> THEN [isNaN |-> TRUE, value |-> 0]
                 ELSE [isNaN |-> FALSE, value |-> v[1]]

\* document.getElementById(elementId) for a number input of the calculator,
\* when the calculator page is not displayed: the contact form has a select
\* with the id vehicleCount, whose option values are "", "1-3", "4-6", "7-10"
\* and "10+"; parseFloat gives NaN for the first and 1, 4, 7, 10 for the others
foreignNumberInput(s, elementId) ==
    IF elementId = "vehicleCount" /\ s.form.exists
    THEN IF s.form.values["vehicleCount"] = "empty"
         THEN [s |-> [s EXCEPT !.form.errors = @ \cup {elementId}], null |-> TRUE, value |-> 0]
         ELSE [s |-> [s EXCEPT !.form.errors = @ \ {elementId}], null |-> FALSE, value |-> 1]
    ELSE [s |-> s, null |-> TRUE, value |-> 0]

\* Variant of validateNumberInput: the test of the upper limit is left out
validateNumberInputNoMax(s, elementId, min, max) ==
    LET parsed == parseFloat(s.calc.inputs[elementId])
    IN  IF ~s.calc.exists THEN foreignNumberInput(s, elementId)
        ELSE IF parsed.isNaN \/ parsed.value < min
        THEN [s |-> [s EXCEPT !.calc.errors = @ \cup {elementId}], null |-> TRUE, value |-> 0]
        ELSE [s |-> [s EXCEPT !.calc.errors = @ \ {elementId}], null |-> FALSE,
              value |-> parsed.value]

validateNumberInput(s, elementId, min, max) ==
    LET parsed == parseFloat(s.calc.inputs[elementId])
    IN  IF ~s.calc.exists THEN foreignNumberInput(s, elementId)
        ELSE IF parsed.isNaN \/ parsed.value < min \/ parsed.value > max
        THEN [s |-> [s EXCEPT !.calc.errors = @ \cup {elementId}], null |-> TRUE, value |-> 0]
        ELSE [s |-> [s EXCEPT !.calc.errors = @ \ {elementId}], null |-> FALSE,
              value |-> parsed.value]

validateSelectInput(s, elementId) ==
    LET value == s.calc.inputs[elementId]
    IN  IF ~s.calc.exists THEN [s |-> s, null |-> TRUE, value |-> ""]
        ELSE IF value \notin {"exchange", "traditional", "lease"}
        THEN [s |-> [s EXCEPT !.calc.errors = @ \cup {elementId}], null |-> TRUE, value |-> ""]
        ELSE [s |-> [s EXCEPT !.calc.errors = @ \ {elementId}], null |-> FALSE, value |-> value]

getValidatedInputs(s) ==
    LET dieselCost == validateNumberInput(s, "currentDiesel", 50000, 1000000)
        monthlyKm == validateNumberInput(dieselCost.s, "monthlyKm", 100, 10000)
        vehicleCount == validateNumberInput(monthlyKm.s, "vehicleCount", 1, 50)
        ppaModel == validateSelectInput(vehicleCount.s, "ppaModel")
    IN  [s |-> ppaModel.s,
         null |-> dieselCost.null \/ monthlyKm.null \/ vehicleCount.null \/ ppaModel.null,
         inputs |-> [dieselCost |-> dieselCost.value, monthlyKm |-> monthlyKm.value,
                     vehicleCount |-> vehicleCount.value, ppaModel |-> ppaModel.value]]

\* Variant of calculateSavings: the per-km charge of the traditional model is
\* not multiplied by the number of vehicles
calculateSavingsKmOnce(inputs) ==
    LET currentMonthlyCost == inputs.dieselCost * inputs.vehicleCount
        newMonthlyCost ==
            CASE inputs.ppaModel = "exchange" -> 120000 * inputs.vehicleCount
              [] inputs.ppaModel = "traditional" ->
                    (95000 * inputs.vehicleCount) + (14 * inputs.monthlyKm)
              [] inputs.ppaModel = "lease" -> 175000 * inputs.vehicleCount
              [] OTHER -> currentMonthlyCost
        monthlySavings == currentMonthlyCost - newMonthlyCost
    IN  [currentMonthlyCost |-> currentMonthlyCost,
         newMonthlyCost |-> newMonthlyCost,
         monthlySavings |-> monthlySavings,
         savingsPercent |-> IF monthlySavings > 0
                            THEN [num |-> monthlySavings, den |-> currentMonthlyCost]
                            ELSE [num |-> 0, den |-> 1],
         annualSavings |-> monthlySavings * 12]

\* Variant of calculateSavings: savingsPercent is the ratio whatever its sign
calculateSavingsAnyPercent(inputs) ==
    LET currentMonthlyCost == inputs.dieselCost * inputs.vehicleCount
        newMonthlyCost ==
            CASE inputs.ppaModel = "exchange" -> 120000 * inputs.vehicleCount
              [] inputs.ppaModel = "traditional" ->
                    (95000 * inputs.vehicleCount)
                    + (14 * inputs.monthlyKm * inputs.vehicleCount)
              [] inputs.ppaModel = "lease" -> 175000 * inputs.vehicleCount
              [] OTHER -> currentMonthlyCost
        monthlySavings == currentMonthlyCost - newMonthlyCost
    IN  [currentMonthlyCost |-> currentMonthlyCost,
         newMonthlyCost |-> newMonthlyCost,
         monthlySavings |-> monthlySavings,
         savingsPercent |-> [num |-> monthlySavings, den |-> currentMonthlyCost],
         annualSavings |-> monthlySavings * 12]

\* savingsPercent is kept as the fraction num / den of which it is 100 times
calculateSavings(inputs) ==
    LET currentMonthlyCost == inputs.dieselCost * inputs.vehicleCount
        newMonthlyCost ==
            CASE inputs.ppaModel = "exchange" -> 120000 * inputs.vehicleCount
              [] inputs.ppaModel = "traditional" ->
                    (95000 * inputs.vehicleCount)
                    + (14 * inputs.monthlyKm * inputs.vehicleCount)
              [] inputs.ppaModel = "lease" -> 175000 * inputs.vehicleCount
              [] OTHER -> currentMonthlyCost
        monthlySavings == currentMonthlyCost - newMonthlyCost
    IN  [currentMonthlyCost |-> currentMonthlyCost,
         newMonthlyCost |-> newMonthlyCost,
         monthlySavings |-> monthlySavings,
         savingsPercent |-> IF monthlySavings > 0
                            THEN [num |-> monthlySavings, den |-> currentMonthlyCost]
                            ELSE [num |-> 0, den |-> 1],
         annualSavings |-> monthlySavings * 12]

\* Math.max(0, savingsPercent).toFixed(0): 100 * num / den rounded to the
\* nearest integer, by long division
percentText(sp) ==
    LET num == IF sp.num > 0 THEN sp.num ELSE 0
        d1 == (num * 10) \div sp.den
        r1 == (num * 10) % sp.den
        d2 == (r1 * 10) \div sp.den
        r2 == (r1 * 10) % sp.den
    IN  d1 * 10 + d2 + (IF 2 * r2 >= sp.den THEN 1 ELSE 0)

\* Variant of displayResults: the texts of the two costs go to each other's
\* element
displayResultsCostsSwapped(c, results) ==
    [c EXCEPT !.results = [shown |-> TRUE,
                           currentCost |-> results.newMonthlyCost,
                           newCost |-> results.currentMonthlyCost,
                           savings |-> results.monthlySavings,
                           savingsPercent |-> percentText(results.savingsPercent),
                           annualSavings |-> results.annualSavings]]

\* formatCurrency and updateElement of the five result elements; the text of
\* a whole amount is kept as the amount it shows
displayResults(c, results) ==
    [c EXCEPT !.results = [shown |-> TRUE,
                           currentCost |-> results.currentMonthlyCost,
                           newCost |-> results.newMonthlyCost,
                           savings |-> results.monthlySavings,
                           savingsPercent |-> percentText(results.savingsPercent),
                           annualSavings |-> results.annualSavings]]

validateAndCalculate(s) ==
    LET rl == checkRateLimit(s.rateLimitStore, "calculator_usage", CalcLimit, s.now)
        s1 == [s EXCEPT !.rateLimitStore = rl.store, !.calc.runs = @ + 1]
        inputs == getValidatedInputs(s1)
        results == calculateSavings(inputs.inputs)
    IN  IF ~rl.ok THEN [s1 EXCEPT !.calc.lastRun = "refused"]
        ELSE IF inputs.null THEN [inputs.s EXCEPT !.calc.lastRun = "invalid"]
        ELSE [inputs.s EXCEPT !.calc = [displayResults(@, results) EXCEPT
                                     !.calls = @ + 1,
                                     !.lastArgs = inputs.inputs,
                                     !.lastResult = results,
                                     !.lastRun = "calculated"]]

\* loadInitialValues: the defaults go into the controls, then validateAndCalculate
loadInitialValues(s) ==
    validateAndCalculate(
        [s EXCEPT !.calc.inputs = [currentDiesel |-> <<250000>>, monthlyKm |-> <<2000>>,
                                   vehicleCount |-> <<1>>, ppaModel |-> "exchange"]])

(***************************************************************************)
(* NavigationSystem                                                        *)
(***************************************************************************)
isValidPage(page) == page \in validPages

\* Variant of setHash: the fragment is left alone for the home page
setHashExceptHome(s, page) ==
    IF page = "home" THEN s
    ELSE [s EXCEPT !.hash = page,
                   !.tasks = IF s.hash # page THEN Append(@, [kind |-> "hashchange"]) ELSE @]

\* Variant of setHash: the hashchange event is queued by every write of the
\* fragment, also by one that leaves it as it was
setHashAlwaysFires(s, page) ==
    [s EXCEPT !.hash = page, !.tasks = Append(@, [kind |-> "hashchange"])]

\* window.location.hash = page: a hashchange event is queued when the fragment changes
setHash(s, page) ==
    [s EXCEPT !.hash = page,
              !.tasks = IF s.hash # page THEN Append(@, [kind |-> "hashchange"]) ELSE @]

\* Variant of awaitContent: the content arrives through a timer or a network
\* callback, so loadPageContent resumes from the task queue
awaitContentAsTask(s, rec) == [s EXCEPT !.tasks = Append(@, rec)]

\* await of the promise of generatePageContent: the rest of loadPageContent
\* resumes from the microtask queue
awaitContent(s, rec) == [s EXCEPT !.microtasks = Append(@, rec)]

\* generatePageContent builds every template and picks the one of the page; its
\* promise is fulfilled with that markup, or rejected when a generator (or, later,
\* the write of <main>) throws: ok tells which
generatePageContent(page, ok) == [kind |-> "content", page |-> page, ok |-> ok]

\* loadPageContent up to its await
loadPageContent(s, page, ok) ==
    awaitContent([s EXCEPT !.effects = Append(@, "request"),
                           !.lastLoad = "pending",
                           !.errorLogged = FALSE],
                 generatePageContent(page, ok))

\* Variant of updateActiveNav: the link of the page is marked, the others are
\* left as they were
updateActiveNavAddsOnly(s, page) ==
    [s EXCEPT !.navCurrent = @ \cup {l \in NavLinks : l = page},
              !.effects = Append(@, "highlight")]

updateActiveNav(s, page) ==
    [s EXCEPT !.navCurrent = {l \in NavLinks : l = page},
              !.effects = Append(@, "highlight")]

\* Variant of coercePage: the isValidPage test is left out
coercePageUnchecked(page) == page

coercePage(page) == IF ~isValidPage(page) THEN "home" ELSE page

navigateTo(s, requested, ok) ==
    LET page == coercePage(requested)
        s1 == [s EXCEPT !.lastRequested = requested,
                        !.currentPage = page, !.effects = <<"currentPage">>]
        s2 == [setHash(s1, page) EXCEPT !.effects = Append(@, "fragment")]
        s3 == loadPageContent(s2, page, ok)
    IN  updateActiveNav(s3, page)

\* the load and hashchange listeners of setupRouting call handleRouteChange
handleRouteChange(s, ok) ==
    navigateTo([s EXCEPT !.navSource = "event"], IF s.hash = "" THEN "home" ELSE s.hash, ok)

\* the click listener of setupRouting: navigateTo(the data-page of the element)
clickListener(s, page, ok) ==
    navigateTo([s EXCEPT !.navSource = "click"], page, ok)

\* document.querySelector('main').innerHTML = content: the elements that were in
\* <main> leave the document, with the listeners bound to them
replaceMain(s, page) ==
    [s EXCEPT !.content = page,
              !.form = IF page = "contact" THEN FreshForm ELSE NoForm,
              !.calcMounted = FALSE,
              !.calc = IF page = "calculator"
                       THEN [FreshCalc EXCEPT !.pending = s.calc.pending]
                       ELSE [NoCalc EXCEPT !.pending = s.calc.pending],
              !.inflight = [i \in DOMAIN @ |-> [@[i] EXCEPT !.attached = FALSE]],
              !.effects = Append(@, "replace")]

\* new Calculator(): setupEventListeners, then loadInitialValues, which ends in
\* validateAndCalculate and so spends one unit of 'calculator_usage'
newCalculator(s) ==
    loadInitialValues([s EXCEPT !.calcMounted = TRUE, !.effects = Append(@, "mount")])

\* new FormHandler(): setupGlobalFormHandler adds submit, blur and input
\* listeners to document; nothing ever removes them
newFormHandler(s) ==
    [s EXCEPT !.formHandlers = @ + 1, !.effects = Append(@, "mount")]

initializePageFunctionality(s, page) ==
    CASE page = "calculator" -> newCalculator(s)
      [] page = "contact" -> newFormHandler(s)
      [] OTHER -> s

\* The fallback page of the design: the home page content goes into <main>
loadErrorPage(s) == [replaceMain(s, "home") EXCEPT !.effects = Append(s.effects, "fallback")]

\* Variant of resumeLoadPageContent: no try/catch around the body, so the
\* rejection leaves loadPageContent unhandled
resumeWithoutCatch(s, rec) ==
    IF rec.ok
    THEN [initializePageFunctionality(replaceMain(s, rec.page), rec.page)
             EXCEPT !.lastLoad = "ok"]
    ELSE [s EXCEPT !.uncaught = TRUE, !.lastLoad = "failed"]

\* loadPageContent after its await: the try body, or the catch
resumeLoadPageContent(s, rec) ==
    IF rec.ok
    THEN [initializePageFunctionality(replaceMain(s, rec.page), rec.page)
             EXCEPT !.lastLoad = "ok"]
    ELSE [loadErrorPage([s EXCEPT !.errorLogged = TRUE])
             EXCEPT !.lastLoad = "failed"]

(***************************************************************************)
(* FormHandler                                                             *)
(***************************************************************************)
\* the timers whose notification element is in document.body, oldest first in
\* document order as each element is appended to the body
displayedNotifications(timers) == {i \in DOMAIN timers : timers[i].current}

\* document.querySelector('.global-notification'): the first such element of
\* the document, 0 when there is none
existingNotification(timers) ==
    IF displayedNotifications(timers) = {} THEN 0
    ELSE CHOOSE i \in displayedNotifications(timers) :
             \A j \in displayedNotifications(timers) : i <= j

\* Variant of showNotification: the existing notification is left in the body
showNotificationKeepsExisting(s, type, origin) ==
    [s EXCEPT !.notification = type,
              !.notifOrigin = origin,
              !.notifTimers = Append(@, [current |-> TRUE, after |-> Len(s.inflight)])]

\* showNotification: the existing notification is removed, the new one is added
\* to document.body and its 5 s auto-remove timer is started
showNotification(s, type, origin) ==
    LET existing == existingNotification(s.notifTimers)
    IN  [s EXCEPT !.notification = type,
                  !.notifOrigin = origin,
                  !.notifTimers = Append([i \in DOMAIN @ |->
                                             IF i = existing THEN [@[i] EXCEPT !.current = FALSE]
                                             ELSE @[i]],
                                         [current |-> TRUE, after |-> Len(s.inflight)])]

setLoadingState(f, isLoading, originalText) ==
    IF isLoading
    THEN [f EXCEPT !.disabled = TRUE, !.text = SendingLabel, !.loading = TRUE]
    ELSE [f EXCEPT !.disabled = FALSE, !.text = originalText, !.loading = FALSE]

\* validateField: the verdict on one field
fieldIsValid(f, n) ==
    IF f.values[n] = "empty" THEN n \notin RequiredFields
    ELSE IF n \in TypedFields THEN f.values[n] = "valid"
    ELSE TRUE

\* validateField: showFieldError on an invalid field, clearFieldError on a valid one
validateField(f, n) ==
    [f EXCEPT !.errors = IF fieldIsValid(f, n) THEN @ \ {n} ELSE @ \cup {n}]

\* Variant of validateFields: the loop stops at the first invalid field
\* (fields.every(...) in place of fields.forEach(...))
RECURSIVE validateUntilInvalid(_, _)
validateUntilInvalid(f, i) ==
    IF i > Len(FieldOrder) THEN [form |-> f, isValid |-> TRUE]
    ELSE IF ~fieldIsValid(f, FieldOrder[i])
    THEN [form |-> validateField(f, FieldOrder[i]), isValid |-> FALSE]
    ELSE validateUntilInvalid(validateField(f, FieldOrder[i]), i + 1)

\* fields.forEach(field => { if (!this.validateField(field)) isValid = false })
RECURSIVE validateFields(_, _)
validateFields(f, i) ==
    IF i > Len(FieldOrder) THEN [form |-> f, isValid |-> TRUE]
    ELSE LET rest == validateFields(validateField(f, FieldOrder[i]), i + 1)
         IN  [form |-> rest.form,
              isValid |-> fieldIsValid(f, FieldOrder[i]) /\ rest.isValid]

\* navigator.userAgent.substring(0, 100): the product token of a browser
UserAgent == "Mozilla/5.0"

\* Security.csrfToken, made when the scripts ran, without its random end
CsrfToken == "elyra_0_"

\* collectFormData: new FormData(form) has one entry per named control, its
\* value the text of the control (entries); every value goes through
\* sanitizeInput (fields), then the three metadata values are added
collectFormData(f, t) ==
    [entries |-> f.typed,
     fields |-> [n \in FieldNames |-> sanitizeInput(Str(f.typed[n])).value.chars],
     csrf |-> CsrfToken, timestamp |-> t, userAgent |-> UserAgent]

\* processFormSubmission: setTimeout(..., 1500) that settles the promise
processFormSubmission(s, originalText, formData) ==
    [s EXCEPT !.inflight = Append(@, [orig |-> originalText, attached |-> TRUE,
                                      data |-> formData])]

\* Variant of handleFormSubmission: the fields are validated first and the
\* rate limit is checked only for a form that passed
handleFormSubmissionValidatesFirst(s) ==
    LET checked == validateFields(s.form, 1)
        s1 == [s EXCEPT !.form = checked.form]
        rl == checkRateLimit(s1.rateLimitStore, "form_submission", FormLimit, s1.now)
        s2 == [s1 EXCEPT !.rateLimitStore = rl.store]
        originalText == s2.form.text
        s3 == [s2 EXCEPT !.form = setLoadingState(@, TRUE, "")]
        formData == collectFormData(s3.form, s3.now)
    IN  IF ~checked.isValid THEN showNotification(s1, "invalid", "sync")
        ELSE IF ~rl.ok THEN showNotification(s2, "rate", "sync")
        ELSE processFormSubmission(s3, originalText, formData)

\* handleFormSubmission of one FormHandler, up to its await
handleFormSubmission(s) ==
    LET rl == checkRateLimit(s.rateLimitStore, "form_submission", FormLimit, s.now)
        s1 == [s EXCEPT !.rateLimitStore = rl.store]
        checked == validateFields(s1.form, 1)
        isValid == checked.isValid
        s2 == [s1 EXCEPT !.form = checked.form]
        originalText == s2.form.text
        s3 == [s2 EXCEPT !.form = setLoadingState(@, TRUE, "")]
        formData == collectFormData(s3.form, s3.now)
    IN  IF ~rl.ok THEN showNotification(s1, "rate", "sync")
        ELSE IF ~isValid THEN showNotification(s2, "invalid", "sync")
        ELSE processFormSubmission(s3, originalText, formData)

\* One submit event reaches the submit listener of every FormHandler that was
\* ever constructed, in the order of registration
RECURSIVE dispatchSubmit(_, _)
dispatchSubmit(n, s) ==
    IF n = 0 THEN s ELSE dispatchSubmit(n - 1, handleFormSubmission(s))

\* Variant of resumeHandleFormSubmission: the form is reset in the finally
\* block, after a failure as well
resumeHandleFormSubmissionResetsAlways(s, rec) ==
    LET origin == IF rec.attached THEN "attached" ELSE "detached"
        s1 == [showNotification(s, IF rec.ok THEN "success" ELSE "error", origin)
                  EXCEPT !.form.values = IF rec.attached THEN AllEmpty ELSE @,
                         !.form.typed = IF rec.attached THEN NoText ELSE @]
    IN  IF rec.attached
        THEN [s1 EXCEPT !.form = setLoadingState(@, FALSE, rec.orig)]
        ELSE s1

\* handleFormSubmission after its await: try body or catch, then finally.
\* reset() and setLoadingState act on the form the submission came from, which
\* is in the document only while rec.attached
resumeHandleFormSubmission(s, rec) ==
    LET origin == IF rec.attached THEN "attached" ELSE "detached"
        s1 == IF rec.ok
              THEN [showNotification(s, "success", origin)
                       EXCEPT !.form.values = IF rec.attached THEN AllEmpty ELSE @,
                              !.form.typed = IF rec.attached THEN NoText ELSE @]
              ELSE showNotification(s, "error", origin)
    IN  IF rec.attached
        THEN [s1 EXCEPT !.form = setLoadingState(@, FALSE, rec.orig)]
        ELSE s1

\* the 'input' listener of every FormHandler: clearFieldError(e.target)
clearFieldError(s, n) ==
    IF s.formHandlers > 0 THEN [s EXCEPT !.form.errors = @ \ {n}] ELSE s

\* input events on the fields of ns, one after the other
RECURSIVE clearFieldErrors(_, _)
clearFieldErrors(s, ns) ==
    IF ns = {} THEN s
    ELSE LET n == CHOOSE m \in ns : TRUE
         IN  clearFieldErrors(clearFieldError(s, n), ns \ {n})

\* the 'blur' listener of every FormHandler: validateField(e.target)
blurField(s, n) ==
    IF s.formHandlers > 0 THEN [s EXCEPT !.form = validateField(@, n)] ELSE s

(***************************************************************************)
(* The event loop: a task runs only when the microtask queue is empty.     *)
(***************************************************************************)
Idle == microtasks = <<>>

NavAllowed(requested) ==
    /\ coercePage(requested) = "contact" => formHandlers < MaxHandlers
    /\ coercePage(requested) = "calculator" =>
           rateLimitStore["calculator_usage"].count < MaxCalcUses

\* the variables have the values of the record r
Holds(r) ==
    /\ currentPage = r.currentPage
    /\ lastRequested = r.lastRequested
    /\ hash = r.hash
    /\ content = r.content
    /\ navCurrent = r.navCurrent
    /\ effects = r.effects
    /\ lastLoad = r.lastLoad
    /\ errorLogged = r.errorLogged
    /\ uncaught = r.uncaught
    /\ tasks = r.tasks
    /\ microtasks = r.microtasks
    /\ formHandlers = r.formHandlers
    /\ calcMounted = r.calcMounted
    /\ form = r.form
    /\ inflight = r.inflight
    /\ notification = r.notification
    /\ notifOrigin = r.notifOrigin
    /\ notifTimers = r.notifTimers
    /\ rateLimitStore = r.rateLimitStore
    /\ now = r.now
    /\ clearDue = r.clearDue
    /\ rateCalls = r.rateCalls
    /\ debounce = r.debounce
    /\ calc = r.calc
    /\ probe = r.probe
    /\ navSource = r.navSource

\* The scripts have run (the constructors of SecurityFramework and
\* NavigationSystem), the page was opened with the fragment h and the load
\* event is queued
Started(h) ==
    [currentPage |-> "home", lastRequested |-> "none", hash |-> h, content |-> "blank",
     navCurrent |-> {}, effects |-> <<>>, lastLoad |-> "none", errorLogged |-> FALSE,
     uncaught |-> FALSE, tasks |-> <<[kind |-> "load"]>>, microtasks |-> <<>>,
     formHandlers |-> 0, calcMounted |-> FALSE, form |-> NoForm, inflight |-> <<>>,
     notification |-> "none", notifOrigin |-> "none", notifTimers |-> <<>>,
     rateLimitStore |-> EmptyStore, now |-> 0, clearDue |-> FALSE,
     rateCalls |-> NoRateCalls, debounce |-> NoDebounce, calc |-> NoCalc,
     probe |-> NoProbe, navSource |-> "none"]

Init == \E h \in HashInputs : Holds(Started(h))

\* the load or hashchange listener of setupRouting (or a queued continuation)
RunTask(ok) ==
    /\ Idle
    /\ tasks # <<>>
    /\ LET t == Head(tasks)
           s == [St EXCEPT !.tasks = Tail(@)]
       IN  IF t.kind = "content"
           THEN Apply(resumeLoadPageContent(s, t))
           ELSE /\ NavAllowed(IF hash = "" THEN "home" ELSE hash)
                /\ Apply(handleRouteChange(s, ok))

\* the click listener of setupRouting, for a click on a [data-page] element
Click(page, ok) ==
    /\ Idle
    /\ Len(tasks) < MaxTasks
    /\ NavAllowed(page)
    /\ Apply(clickListener(St, page, ok))

\* the user edits the fragment or moves in the history
UserHashChange(h) ==
    /\ Idle
    /\ Len(tasks) < MaxTasks
    /\ h # hash
    /\ Apply([St EXCEPT !.hash = h, !.tasks = Append(@, [kind |-> "hashchange"])])

RunMicrotask ==
    /\ microtasks # <<>>
    /\ LET m == Head(microtasks)
           s == [St EXCEPT !.microtasks = Tail(@)]
       IN  IF m.kind = "content"
           THEN Apply(resumeLoadPageContent(s, m))
           ELSE Apply(resumeHandleFormSubmission(s, m))

\* the user fills in the whole contact form: an input event on every field
UserInput(v) ==
    /\ Idle
    /\ form.exists
    /\ v # form.values
    /\ Apply(clearFieldErrors(
                [St EXCEPT !.form.values = v,
                           !.form.typed = [n \in FieldNames |-> SampleText(n, v[n])]],
                FieldNames))

\* the user types into one field of the contact form
UserInputField(n, c) ==
    /\ Idle
    /\ form.exists
    /\ c # form.values[n]
    /\ Apply(clearFieldError([St EXCEPT !.form.values[n] = c,
                                        !.form.typed[n] = SampleText(n, c)], n))

\* the focus leaves one field of the contact form
Blur(n) ==
    /\ Idle
    /\ form.exists
    /\ Apply(blurField(St, n))

\* submit event of the contact form; a disabled submit button submits nothing
Submit ==
    /\ Idle
    /\ form.exists
    /\ ~form.disabled
    /\ LET r == dispatchSubmit(formHandlers, St)
       IN  /\ Len(r.inflight) <= MaxInflight
           /\ Len(r.notifTimers) <= MaxTimers
           /\ Apply(r)

\* the 1500 ms timer of processFormSubmission; ok = Math.random() >= 0.1
SubmissionTimerFires(ok) ==
    /\ Idle
    /\ inflight # <<>>
    /\ Len(notifTimers) < MaxTimers
    /\ LET h == Head(inflight)
       IN  Apply([St EXCEPT !.inflight = Tail(@),
                            !.notifTimers = [i \in DOMAIN @ |->
                                [@[i] EXCEPT !.after = IF @ > 0 THEN @ - 1 ELSE 0]],
                            !.microtasks = Append(@, [kind |-> "submit", orig |-> h.orig,
                                                      attached |-> h.attached, ok |-> ok])])

\* the 5 s auto-remove timer of showNotification; the 1500 ms timers that were
\* pending when it was started have fired by then
NotificationTimerFires ==
    /\ Idle
    /\ notifTimers # <<>>
    /\ Head(notifTimers).after = 0
    /\ Apply([St EXCEPT !.notifTimers = Tail(@),
                        !.notification = IF Head(notifTimers).current THEN "none" ELSE @,
                        !.notifOrigin = IF Head(notifTimers).current THEN "none" ELSE @])

\* TickMs pass; every shorter timer and queued event has run by then
Tick ==
    /\ Idle
    /\ tasks = <<>> /\ inflight = <<>> /\ notifTimers = <<>>
    /\ ~clearDue
    /\ now < MaxTicks * TickMs
    /\ Apply([St EXCEPT !.now = now + TickMs,
                        !.clearDue = ((now + TickMs) % ClearIntervalMs = 0)])

\* the setInterval callback of initializeRateLimiting
ClearTimerFires ==
    /\ Idle
    /\ clearDue
    /\ Apply([St EXCEPT !.rateLimitStore = clearRateLimitStore(@), !.clearDue = FALSE])

Next ==
    \/ \E ok \in BOOLEAN : RunTask(ok)
    \/ \E page \in DataPages, ok \in BOOLEAN : Click(page, ok)
    \/ \E h \in HashInputs : UserHashChange(h)
    \/ RunMicrotask
    \/ \E v \in FormFills : UserInput(v)
    \/ Submit
    \/ \E ok \in BOOLEAN : SubmissionTimerFires(ok)
    \/ NotificationTimerFires
    \/ Tick
    \/ ClearTimerFires

Spec == Init /\ [][Next]_vars

\* The router alone: every source of navigation events, and the microtask queue
NavNext ==
    \/ \E ok \in BOOLEAN : RunTask(ok)
    \/ \E page \in DataPages, ok \in BOOLEAN : Click(page, ok)
    \/ \E h \in HashInputs : UserHashChange(h)
    \/ RunMicrotask
    \/ Tick
    \/ ClearTimerFires

NavSpec == Init /\ [][NavNext]_vars

\* a navigateTo call followed by the rest of its loadPageContent
navigatedTo(s, k) ==
    LET s1 == clickListener(s, k, TRUE)
    IN  resumeLoadPageContent([s1 EXCEPT !.microtasks = Tail(@)], Head(s1.microtasks))

\* the page was opened with the fragment k and its load event has been handled
Opened(k) == [navigatedTo([Started(k) EXCEPT !.tasks = <<>>], k) EXCEPT !.navSource = "event"]

(***************************************************************************)
(* The contact form alone: the contact page is displayed (after one visit, *)
(* or after more), the user edits single fields, leaves them and submits.  *)
(***************************************************************************)
RECURSIVE contactVisited(_)
contactVisited(n) ==
    IF n = 1 THEN Opened("contact") ELSE navigatedTo(contactVisited(n - 1), "contact")

FormInit == \E n \in 1..MaxHandlers : Holds(contactVisited(n))

FormNext ==
    \/ \E n \in FieldNames : \E c \in FieldValues(n) : UserInputField(n, c)
    \/ \E n \in FieldNames : Blur(n)
    \/ Submit
    \/ \E ok \in BOOLEAN : SubmissionTimerFires(ok)
    \/ RunMicrotask
    \/ NotificationTimerFires

FormSpec == FormInit /\ [][FormNext]_vars

(***************************************************************************)
(* checkRateLimit alone: a caller probes it with one limit for any key at  *)
(* any time. Time passes in steps of 1 ms and of half a clear interval;    *)
(* the interval callback is a timer task, so it runs at its due time or up *)
(* to MaxLateMs later, and calls made in between run before it.            *)
(***************************************************************************)
HalfIntervalMs == ClearIntervalMs \div 2
RateSteps == {1, HalfIntervalMs}

\* entries the cleaning loop of a call at time t removes
Expired(store, t) == {k \in RateKeys : store[k].count > 0 /\ store[k].timestamp < t - WindowMs}

\* the record of the calls when the entries of the keys in gone are removed
entriesRemoved(rc, gone) ==
    [rc EXCEPT !.log = [k \in RateKeys |-> IF k \in gone THEN <<>> ELSE @[k]],
               !.wasRefused = [k \in RateKeys |->
                   IF k \in gone /\ rc.log[k] # <<>>
                   THEN ~rc.log[k][Len(rc.log[k])] ELSE @[k]]]

RateInit == \E n \in 1..MaxLimit : Holds([Started("") EXCEPT !.rateCalls.limit = n])

RateCall(key) ==
    /\ Idle
    /\ Len(rateCalls.sinceClear[key]) < MaxCalls
    /\ LET gone == Expired(rateLimitStore, now)
           res == checkRateLimit(rateLimitStore, key, rateCalls.limit, now)
           rc == entriesRemoved(rateCalls, gone)
       IN  Apply([St EXCEPT !.rateLimitStore = res.store,
                            !.rateCalls = [rc EXCEPT !.sinceClear[key] = Append(@, res.ok),
                                                     !.log[key] = Append(@, res.ok),
                                                     !.last = [key |-> key, ok |-> res.ok,
                                                               evicted |-> gone]]])

RateAdvance(d) ==
    /\ Idle
    /\ now + d <= MaxTicks * TickMs + MaxLateMs
    /\ (now + d) % HalfIntervalMs <= MaxLateMs
    /\ clearDue => d = 1
    /\ Apply([St EXCEPT !.now = now + d,
                        !.clearDue = clearDue \/ ((now + d) \div ClearIntervalMs
                                                     > now \div ClearIntervalMs)])

RateClear ==
    /\ Idle
    /\ clearDue
    /\ Apply([St EXCEPT !.rateLimitStore = clearRateLimitStore(@),
                        !.clearDue = FALSE,
                        !.rateCalls = [entriesRemoved(@, RateKeys) EXCEPT
                                          !.sinceClear = [k \in RateKeys |-> <<>>]]])

RateNext ==
    \/ \E key \in RateKeys : RateCall(key)
    \/ \E d \in RateSteps : RateAdvance(d)
    \/ RateClear

RateSpec == RateInit /\ [][RateNext]_vars

(***************************************************************************)
(* One debounced input listener of the displayed calculator page: input    *)
(* events arrive at any time, time passes in steps of a third of the wait. *)
(* A due timer callback is a task like any other: an event that arrives at *)
(* the same time may be handled before it.                                 *)
(***************************************************************************)
DebounceInit == Holds(Opened("calculator"))

TimerDue == debounce.timers # <<>> /\ Head(debounce.timers).due <= debounce.clock

InputEvent(arg) ==
    /\ Idle
    /\ Cardinality({i \in DOMAIN debounce.hist : debounce.hist[i].kind = "event"}) < MaxEvents
    /\ Apply([St EXCEPT !.debounce = executedFunction(@, arg, DebounceWaitMs)])

DebounceTimerFires ==
    /\ Idle
    /\ TimerDue
    /\ Apply([St EXCEPT !.debounce = later(@)])

DebounceTick ==
    /\ Idle
    /\ ~TimerDue
    /\ debounce.clock < MaxSteps * DebounceStepMs
    /\ Apply([St EXCEPT !.debounce.clock = @ + DebounceStepMs])

DebounceNext ==
    \/ \E arg \in InputArgs : InputEvent(arg)
    \/ DebounceTimerFires
    \/ DebounceTick

DebounceSpec == DebounceInit /\ [][DebounceNext]_vars

(***************************************************************************)
(* The calculator: the calculator page is displayed, the user types into   *)
(* the number inputs (debounced listeners), changes the select and leaves  *)
(* for another page, possibly while timers of the listeners are running.   *)
(* The page is the first visit of the window, or one of the visits around  *)
(* the limit of 'calculator_usage'. A number input holds no number, a      *)
(* number just outside its range, or one of the limits of the range.       *)
(***************************************************************************)
RECURSIVE calculatorVisited(_)
calculatorVisited(n) ==
    IF n = 1 THEN Opened("calculator")
    ELSE LET before == calculatorVisited(n - 1)
         IN  \* the next visit starts when the page of the one before is displayed
             IF before.microtasks = <<>> THEN navigatedTo(before, "calculator")
             ELSE before

CalcVisits == {1, CalcLimit, CalcLimit + 1}

TypedValues(id) ==
    CASE id = "currentDiesel" -> {<<>>, <<49999>>, <<50000>>, <<250000>>, <<1000000>>, <<1000001>>}
      [] id = "monthlyKm" -> {<<>>, <<99>>, <<100>>, <<2000>>, <<10000>>, <<10001>>}
      [] id = "vehicleCount" -> {<<>>, <<0>>, <<1>>, <<50>>, <<51>>}

SelectValues == {"exchange", "traditional", "lease", ""}

CalcInit == \E n \in CalcVisits : Holds(calculatorVisited(n))

\* input event on a number input: the debounced listener (re)starts its timer
CalcInput(id, v) ==
    /\ Idle
    /\ calc.exists /\ calcMounted
    /\ v # calc.inputs[id]
    /\ id \in calc.pending \/ calc.runs + Cardinality(calc.pending) < MaxRuns
    /\ Apply([St EXCEPT !.calc.inputs[id] = v, !.calc.pending = @ \cup {id}])

\* the timer of a debounced listener fires
CalcDebounceFires(id) ==
    /\ Idle
    /\ id \in calc.pending
    /\ Apply(validateAndCalculate([St EXCEPT !.calc.pending = @ \ {id}]))

\* change event on the select
CalcChange(v) ==
    /\ Idle
    /\ calc.exists /\ calcMounted
    /\ v # calc.inputs.ppaModel
    /\ calc.runs < MaxRuns
    /\ Apply(validateAndCalculate([St EXCEPT !.calc.inputs.ppaModel = v]))

CalcNext ==
    \/ \E id \in NumberInputs : \E v \in TypedValues(id) : CalcInput(id, v)
    \/ \E id \in NumberInputs : CalcDebounceFires(id)
    \/ \E v \in SelectValues : CalcChange(v)
    \/ \E page \in {"home", "contact"}, ok \in BOOLEAN : Click(page, ok)
    \/ RunMicrotask

CalcSpec == CalcInit /\ [][CalcNext]_vars

(***************************************************************************)
(* calculateSavings on in-range inputs: the user has typed in-range values *)
(* into the number inputs of the freshly displayed calculator page, the    *)
(* timers of the edited inputs are running; they fire in any order and the *)
(* user picks a model.                                                     *)
(***************************************************************************)
InRangeDiesel == {50000, 120000, 175000, 250000, 1000000}
InRangeKm == {100, 2000, 5000, 10000}
InRangeVehicles == {1, 2, 50}

typedInRange(s, d, k, v) ==
    [s EXCEPT !.calc.inputs = [currentDiesel |-> <<d>>, monthlyKm |-> <<k>>,
                               vehicleCount |-> <<v>>, ppaModel |-> @.ppaModel],
              !.calc.pending = {id \in NumberInputs :
                                   s.calc.inputs[id] # (CASE id = "currentDiesel" -> <<d>>
                                                          [] id = "monthlyKm" -> <<k>>
                                                          [] id = "vehicleCount" -> <<v>>)}]

SavingsInit ==
    \E d \in InRangeDiesel, k \in InRangeKm, v \in InRangeVehicles :
        Holds(typedInRange(Opened("calculator"), d, k, v))

SavingsNext ==
    \/ \E id \in NumberInputs : CalcDebounceFires(id)
    \/ \E v \in {"exchange", "traditional", "lease"} : CalcChange(v)

SavingsSpec == SavingsInit /\ [][SavingsNext]_vars

(***************************************************************************)
(* InputValidator alone: a caller passes any value to any of the four      *)
(* functions. The strings are phone numbers put together from a prefix, a  *)
(* first digit and the other digits, with and without whitespace, and      *)
(* some names, addresses and pieces of markup.                             *)
(***************************************************************************)
PhoneTexts ==
    LET PhoneHeads == {<<>>, <<"+", "2", "5", "4">>, <<"2", "5", "4">>, <<"0">>, <<"+">>,
                       <<"+", "0">>, <<"0", "0">>, <<"2", "5", "4", "0">>, <<"2", "5">>}
        PhoneFirsts == {"1", "7", "0", "2"}
        PhoneTails == {Decimal(12345678), Decimal(2345678), Decimal(123456789),
                       Append(Decimal(1234567), "a")}
        \* the digits as they are, or written with whitespace around and between them
        Spaced(head, first, tail) ==
            {head \o <<first>> \o tail,
             <<" ">> \o head \o <<" ", first>> \o tail \o <<"\t">>,
             head \o <<first>> \o SubSeq(tail, 1, 2) \o <<" ">> \o SubSeq(tail, 3, Len(tail))}
    IN  UNION {Spaced(h, f, t) : h \in PhoneHeads, f \in PhoneFirsts, t \in PhoneTails}
        \cup {Decimal(12345), <<>>, <<" ">>}

OtherTexts ==
    {<<"a", "@", "b", ".", "c", "o", "m">>,
     <<"n", "o", "t", "-", "a", "n", "-", "e", "m", "a", "i", "l">>,
     <<"a", "@", "b", ".">>, <<"@", "b", ".", "c", "o">>, <<"a", "@", "-", "b">>,
     <<"o", "'", "k", "/", "x", "@", "b", "-", "c", ".", "k", "e">>,
     <<"A", "l">>, <<" ", "A", " ">>, <<"O", "'", "N", "e", "i", "l">>,
     <<"A", "n", "n", "-", "L", "i", " ", "W", "u">>, <<"A", "l", "1">>,
     <<"<", "s", "c", "r", "i", "p", "t", ">">>,
     <<" ", "<", "a", " ", "b", "=", "\"", "c", "'", "/", ">", "\n">>,
     <<"&", "l", "t", ";", "/">>}

ProbeValues ==
    {Null, Undefined, Num(0), Num(12345), Num(712345678)}
    \cup {Arr(<<"a", "@", "b", ".", "c", "o", "m">>), Arr(Decimal(712345678))}
    \cup {Str(t) : t \in PhoneTexts \cup OtherTexts}

ValidatorInit == Holds(Started(""))

CallValidateEmail(v) ==
    Apply([St EXCEPT !.probe = [fn |-> "validateEmail", input |-> v,
                                result |-> validateEmail(v)]])

CallValidatePhone(v) ==
    Apply([St EXCEPT !.probe = [fn |-> "validatePhone", input |-> v,
                                result |-> validatePhone(v)]])

CallValidateName(v) ==
    Apply([St EXCEPT !.probe = [fn |-> "validateName", input |-> v,
                                result |-> validateName(v)]])

CallSanitizeInput(v) ==
    Apply([St EXCEPT !.probe = [fn |-> "sanitizeInput", input |-> v,
                                result |-> sanitizeInput(v)]])

ValidatorNext ==
    \/ \E v \in ProbeValues : CallValidateEmail(v)
    \/ \E v \in ProbeValues : CallValidatePhone(v)
    \/ \E v \in ProbeValues : CallValidateName(v)
    \/ \E v \in ProbeValues : CallSanitizeInput(v)

ValidatorSpec == ValidatorInit /\ [][ValidatorNext]_vars

(***************************************************************************)
(* The texts of the contact form: the contact page is displayed, the user  *)
(* types names, addresses, numbers and messages with markup and whitespace *)
(* in them, picks options and submits.                                     *)
(***************************************************************************)
FieldTexts(n) ==
    CASE n = "name" -> {<<"O", "'", "N", "e", "i", "l">>, <<" ", "A", "l", "\t">>}
      [] n = "email" -> {<<"o", "'", "k", "/", "x", "@", "b", ".", "k", "e">>, <<"a", "@">>}
      [] n = "phone" -> {<<" ", "+", "2", "5", "4", " ">> \o Decimal(712345678)}
      [] n = "businessType" -> {<<"o", "t", "h", "e", "r">>}
      [] n = "vehicleCount" -> {<<"1", "0", "+">>}
      [] n = "message" -> {<<"<", "s", "c", "r", "i", "p", "t", ">">>,
                           <<" ", "<", "a", " ", "b", "=", "\"", "c", "'", "/", ">", "\n">>,
                           <<"&", "l", "t", ";", "/">>}

SanitizeInit == Holds(Opened("contact"))

\* the user types a text into a field, or picks an option of a select
TypeText(n, text) ==
    /\ Idle
    /\ form.exists
    /\ text # form.typed[n]
    /\ Apply(clearFieldError([St EXCEPT !.form.typed[n] = text,
                                        !.form.values[n] = classOf(n, text)], n))

SanitizeNext ==
    \/ \E n \in FieldNames : \E text \in FieldTexts(n) : TypeText(n, text)
    \/ Submit
    \/ \E ok \in BOOLEAN : SubmissionTimerFires(ok)
    \/ RunMicrotask
    \/ NotificationTimerFires

SanitizeSpec == SanitizeInit /\ [][SanitizeNext]_vars

(***************************************************************************)
(* The quota of the contact form: the contact page is displayed, the user  *)
(* fills in the form, well or badly, and submits again and again; the      *)
(* clear interval passes and the store is cleared.                         *)
(***************************************************************************)
QuotaNext ==
    \/ \E v \in FormFills : UserInput(v)
    \/ Submit
    \/ \E ok \in BOOLEAN : SubmissionTimerFires(ok)
    \/ RunMicrotask
    \/ NotificationTimerFires
    \/ Tick
    \/ ClearTimerFires

QuotaSpec == FormInit /\ [][QuotaNext]_vars

(***************************************************************************)
(* Shared vocabulary of the properties                                     *)
(***************************************************************************)
PageKeys == {"home", "solutions", "models", "calculator", "contact"}

\* page coordinators whose listeners are live
Coordinators(s) == s.formHandlers + (IF s.calcMounted THEN 1 ELSE 0)

\* continuations of loadPageContent that have not run yet
PendingLoads ==
    Cardinality({i \in DOMAIN microtasks : microtasks[i].kind = "content"})
    + Cardinality({i \in DOMAIN tasks : tasks[i].kind = "content"})

Last(seq) == seq[Len(seq)]

(***************************************************************************)
(* C1: in every reachable state at most one page coordinator (FormHandler  *)
(* or Calculator) is active, so one document-level submit or input event   *)
(* is handled by at most one coordinator instance.                         *)
(***************************************************************************)
C1_AtMostOneCoordinator == Coordinators(St) <= 1

(***************************************************************************)
(* C2: navigateTo(k) is never rejected; after it currentPage is k when k   *)
(* is one of the five page keys and home otherwise, so currentPage is      *)
(* always one of the five page keys.                                       *)
(***************************************************************************)
C2_NavigateCoerces ==
    /\ currentPage \in PageKeys
    /\ ~uncaught
    /\ lastRequested # "none" =>
          currentPage = (IF lastRequested \in PageKeys THEN lastRequested ELSE "home")

C2_InvalidKeyRequested == lastRequested = "bogus" /\ currentPage = "home"

(***************************************************************************)
(* C3: between two event handlers (no continuation pending, a navigation   *)
(* finished) the content of <main>, the active coordinator and currentPage *)
(* belong to the same page key, also after a failed load.                  *)
(***************************************************************************)
C3_ContentCoordinatorPageAgree ==
    (Idle /\ lastLoad \in {"ok", "failed"}) =>
        /\ content = currentPage
        /\ formHandlers = (IF currentPage = "contact" THEN 1 ELSE 0)
        /\ calcMounted = (currentPage = "calculator")

C5_NavigateIdempotent ==
    (Idle /\ lastLoad = "ok" /\ lastRequested = currentPage) =>
        LET k == currentPage
            twice == navigatedTo(St, k)
        IN  /\ twice.currentPage = currentPage
            /\ twice.hash = hash
            /\ twice.content = content
            /\ twice.navCurrent = navCurrent
            /\ Coordinators(twice) = (IF k \in {"contact", "calculator"} THEN 1 ELSE 0)

(***************************************************************************)
(* C6: within one navigateTo the nav-link highlighting is updated last,    *)
(* after the content replacement and the coordinator mount.                *)
(***************************************************************************)
C6_HighlightAfterContentAndMount ==
    (Idle /\ lastLoad = "ok") => Last(effects) = "highlight"

(***************************************************************************)
(* C7: a navigateTo execution begins only when the previous one has        *)
(* finished, its content replacement and coordinator mount included: the   *)
(* steps of two executions never interleave.                               *)
(***************************************************************************)
C7_NavigationsDoNotInterleave ==
    [][PendingLoads' > PendingLoads => (PendingLoads = 0 /\ lastLoad # "pending")]_vars

C7_SecondNavigationStarted ==
    lastLoad = "pending" /\ PendingLoads = 1 /\ content # "blank"

(***************************************************************************)
(* C8: the completion of a submission whose form has left the document     *)
(* (the router went to another page) does not change the shared UI: it     *)
(* shows no notification.                                                  *)
(***************************************************************************)
C8_DetachedCompletionShowsNothing == notifOrigin # "detached"

(***************************************************************************)
(* C9: once no submission of the displayed form is pending, its submit     *)
(* button is ready again: enabled, not loading, with the label it had      *)
(* before any submission started.                                          *)
(***************************************************************************)
C9_ButtonRestored ==
    (form.exists /\ Idle /\ \A i \in DOMAIN inflight : ~inflight[i].attached) =>
        (~form.disabled /\ ~form.loading /\ form.text = ButtonLabel)

(***************************************************************************)
(* C10: at most one simulated submission call is in flight at any time.    *)
(***************************************************************************)
C10_OneSubmissionInFlight == Len(inflight) <= 1

\* the fields validateField rejects: a malformed value, or a required field left empty
InvalidFields(f) ==
    {n \in FieldNames : \/ f.values[n] = "invalid"
                        \/ f.values[n] = "empty" /\ n \in RequiredFields}

(***************************************************************************)
(* C11: when a submit attempt passes the rate check and at least one field *)
(* fails validation, handleFormSubmission still validates every field (the *)
(* inline errors afterwards are exactly the invalid fields), shows one     *)
(* notification, the validation error, and stops: the submit button does   *)
(* not enter its loading state and no simulated submission call starts.    *)
(***************************************************************************)
C11_InvalidSubmitStops ==
    (/\ form.exists /\ ~form.disabled
     /\ rateLimitStore["form_submission"].count < 3
     /\ InvalidFields(form) # {}) =>
        LET r == handleFormSubmission(St)
        IN  /\ r.form.errors = InvalidFields(form)
            /\ r.notification = "invalid"
            /\ Len(r.notifTimers) = Len(notifTimers) + 1
            /\ ~r.form.loading /\ ~r.form.disabled /\ r.form.text = form.text
            /\ r.inflight = inflight /\ r.microtasks = microtasks

C11_TwoFieldsFlagged ==
    /\ notification = "invalid"
    /\ form.values["email"] = "invalid" /\ form.values["phone"] = "empty"
    /\ form.errors = InvalidFields(form)
    /\ ~form.loading /\ inflight = <<>>

(***************************************************************************)
(* C12 as stated: among the checkRateLimit(key, N) calls made between two  *)
(* consecutive clears of the store, the first N return true and every      *)
(* later one returns false.                                                *)
(***************************************************************************)
C12_FirstNBetweenClears ==
    \A k \in RateKeys : \A i \in DOMAIN rateCalls.sinceClear[k] :
        rateCalls.sinceClear[k][i] = (i <= rateCalls.limit)

(***************************************************************************)
(* C12 amended: the window of a key lasts while its entry stays in the     *)
(* store, that is until the next periodic clear or, when the clear runs    *)
(* late, until the entry is older than 60 s. Among the checkRateLimit(key, *)
(* N) calls made within one such window the first N return true and every *)
(* later one returns false; for N = 3 four calls give true, true, true,    *)
(* false.                                                                  *)
(***************************************************************************)
C12_FirstNAllowed ==
    \A k \in RateKeys : \A i \in DOMAIN rateCalls.log[k] :
        rateCalls.log[k][i] = (i <= rateCalls.limit)

C12_ThreeThenRefused ==
    /\ rateCalls.limit = 3
    /\ rateCalls.log["form_submission"] = <<TRUE, TRUE, TRUE, FALSE>>

\* this step is a checkRateLimit call for the key k that returns false
Refused(k) ==
    /\ Len(rateCalls'.log[k]) = Len(rateCalls.log[k]) + 1
    /\ ~rateCalls'.log[k][Len(rateCalls'.log[k])]

(***************************************************************************)
(* C13 as stated: a checkRateLimit call that returns false leaves the      *)
(* whole store as it was.                                                  *)
(***************************************************************************)
C13_RefusedCallKeepsStore ==
    [][\A k \in RateKeys : Refused(k) => rateLimitStore' = rateLimitStore]_vars

(***************************************************************************)
(* C13 amended: a checkRateLimit call that returns false leaves the entry  *)
(* of its key as it was and adds no entry; the only change it makes to the *)
(* store is the removal of entries of other keys that are older than the   *)
(* 60 s window.                                                            *)
(***************************************************************************)
C13_RefusedCallOnlyEvicts ==
    [][\A k \in RateKeys : Refused(k) =>
          /\ rateLimitStore'[k] = rateLimitStore[k]
          /\ \A j \in RateKeys :
                \/ rateLimitStore'[j] = rateLimitStore[j]
                \/ /\ rateLimitStore'[j] = NoEntry
                   /\ rateLimitStore[j].timestamp + 60000 < now]_vars

C13_RefusedCallEvicted ==
    /\ ~rateCalls.last.ok
    /\ rateCalls.last.evicted # {}

(***************************************************************************)
(* C14: a key that was being refused is not refused for ever: once its     *)
(* entry has left the store (the periodic clear, or the expiry of the      *)
(* entry) the next checkRateLimit call for the key returns true.           *)
(***************************************************************************)
C14_AllowedAgainAfterClear ==
    \A k \in RateKeys :
        (rateCalls.wasRefused[k] /\ rateCalls.log[k] # <<>>) => rateCalls.log[k][1]

C14_RefusedThenAllowed ==
    /\ rateCalls.wasRefused["form_submission"]
    /\ rateCalls.log["form_submission"] = <<TRUE>>
    /\ rateCalls.last.evicted = {}

\* this step makes a navigateTo call; it handles the oldest queued load or hashchange event
NavigateStep == lastLoad # "pending" /\ lastLoad' = "pending"

RouteEventHandled ==
    /\ tasks # <<>>
    /\ \/ tasks' = Tail(tasks)
       \/ hash' # hash /\ tasks' = Append(Tail(tasks), [kind |-> "hashchange"])

(***************************************************************************)
(* C15: when a navigateTo call returns, the fragment equals currentPage.   *)
(* For a load or hashchange event the two are the fragment the event found *)
(* when it is a page key and home when it is empty or unrecognized; for a  *)
(* click they are the requested key, or home when it is no page key.       *)
(***************************************************************************)
C15_FragmentIsCurrentPage ==
    [][NavigateStep =>
          /\ hash' = currentPage'
          /\ hash' = IF RouteEventHandled
                     THEN (IF hash \in PageKeys THEN hash ELSE "home")
                     ELSE (IF lastRequested' \in PageKeys THEN lastRequested' ELSE "home")]_vars

C15_UnknownFragmentRewritten ==
    /\ lastRequested = "bogus"
    /\ hash = "home"
    /\ tasks = <<[kind |-> "hashchange"]>>

(***************************************************************************)
(* C16: after every navigateTo exactly one nav link is marked as current,  *)
(* the one whose page key equals currentPage.                              *)
(***************************************************************************)
C16_OneCurrentLink ==
    lastRequested # "none" =>
        (Cardinality(navCurrent) = 1 /\ currentPage \in navCurrent)

C16_HighlightMoved ==
    /\ navCurrent = {"models"}
    /\ content = "contact"
    /\ currentPage = "models"

(***************************************************************************)
(* C17 amended: the wrapped function is never invoked sooner than the wait *)
(* time after the latest input event, and every invocation carries the     *)
(* arguments of that latest event. The events that arrive before the       *)
(* pending timer callback has run, in particular all events closer         *)
(* together than the wait time, form one burst; the wrapped function is    *)
(* invoked exactly once per burst, after its last event: a call follows an *)
(* event directly, an event that is the latest entry has one timer pending *)
(* for its time plus the wait, and nothing is pending after a call.        *)
(***************************************************************************)
C17_CallAfterQuietPeriod ==
    LET h == debounce.hist
    IN  /\ \A j \in DOMAIN h : h[j].kind = "call" =>
              /\ j > 1
              /\ h[j - 1].kind = "event"
              /\ h[j - 1].arg = h[j].arg
              /\ h[j].at >= h[j - 1].at + 300
        /\ h # <<>> =>
              IF h[Len(h)].kind = "event"
              THEN debounce.timers = <<[due |-> h[Len(h)].at + 300, arg |-> h[Len(h)].arg]>>
              ELSE debounce.timers = <<>>

(***************************************************************************)
(* C17 as stated: the bursts are delimited by the wait time alone, and     *)
(* each of them gets its call. So two successive events with no call of    *)
(* the wrapped function between them belong to one burst: they are closer  *)
(* together than the wait time.                                            *)
(***************************************************************************)
C17_BurstsByWaitTime ==
    \A j \in DOMAIN debounce.hist :
        (j > 1 /\ debounce.hist[j].kind = "event" /\ debounce.hist[j - 1].kind = "event") =>
            debounce.hist[j].at - debounce.hist[j - 1].at < 300

C17_BurstThenOneCall ==
    /\ Len(debounce.hist) = 3
    /\ debounce.hist[1] = [kind |-> "event", at |-> 0, arg |-> "a"]
    /\ debounce.hist[2] = [kind |-> "event", at |-> 200, arg |-> "b"]
    /\ debounce.hist[3] = [kind |-> "call", at |-> 500, arg |-> "b"]

(***************************************************************************)
(* C18: for in-range inputs calculateSavings returns currentMonthlyCost =  *)
(* dieselCost * vehicleCount, newMonthlyCost = 120000 * vehicleCount       *)
(* (exchange), 95000 * vehicleCount + 14 * monthlyKm * vehicleCount        *)
(* (traditional), 175000 * vehicleCount (lease), monthlySavings = current  *)
(* - new and annualSavings = 12 * monthlySavings; for 250000, 2000, 1,     *)
(* exchange it returns 250000, 120000, 130000 and 1560000.                 *)
(***************************************************************************)
C18_SavingsFormulas ==
    calc.calls > 0 =>
        LET a == calc.lastArgs
            r == calc.lastResult
        IN  /\ r.currentMonthlyCost = a.dieselCost * a.vehicleCount
            /\ a.ppaModel = "exchange" => r.newMonthlyCost = 120000 * a.vehicleCount
            /\ a.ppaModel = "traditional" =>
                   r.newMonthlyCost = 95000 * a.vehicleCount
                                      + 14 * a.monthlyKm * a.vehicleCount
            /\ a.ppaModel = "lease" => r.newMonthlyCost = 175000 * a.vehicleCount
            /\ r.monthlySavings = r.currentMonthlyCost - r.newMonthlyCost
            /\ r.annualSavings = 12 * r.monthlySavings
            /\ a = [dieselCost |-> 250000, monthlyKm |-> 2000, vehicleCount |-> 1,
                    ppaModel |-> "exchange"] =>
                   /\ r.currentMonthlyCost = 250000 /\ r.newMonthlyCost = 120000
                   /\ r.monthlySavings = 130000 /\ r.annualSavings = 1560000

C18_TraditionalFleet ==
    /\ calc.calls > 1
    /\ calc.lastArgs = [dieselCost |-> 250000, monthlyKm |-> 10000, vehicleCount |-> 50,
                        ppaModel |-> "traditional"]
    /\ calc.lastResult.newMonthlyCost = 11750000
    /\ calc.lastResult.monthlySavings = 750000

(***************************************************************************)
(* C19: savingsPercent is 0 whenever monthlySavings is not positive and    *)
(* otherwise greater than 0 and at most 100; monthlySavings and            *)
(* annualSavings are not clamped, they are negative whenever newMonthlyCost*)
(* exceeds currentMonthlyCost.                                             *)
(***************************************************************************)
C19_PercentClampedSavingsNot ==
    calc.calls > 0 =>
        LET r == calc.lastResult
        IN  /\ r.monthlySavings <= 0 => r.savingsPercent.num = 0
            /\ r.monthlySavings > 0 =>
                   (r.savingsPercent.num > 0 /\ r.savingsPercent.num <= r.savingsPercent.den)
            /\ r.savingsPercent.den > 0
            /\ r.newMonthlyCost > r.currentMonthlyCost =>
                   (r.monthlySavings < 0 /\ r.annualSavings < 0)

C19_NegativeSavingsShown ==
    /\ calc.calls > 1
    /\ calc.lastResult.monthlySavings < 0
    /\ calc.lastResult.annualSavings < 0
    /\ calc.lastResult.savingsPercent.num = 0
    /\ calc.results.savings < 0 /\ calc.results.savingsPercent = 0

\* the controls hold a number within each range and one of the three models
InRange(v, min, max) == v # <<>> /\ v[1] >= min /\ v[1] <= max

InputsInRange(c) ==
    /\ c.exists
    /\ InRange(c.inputs.currentDiesel, 50000, 1000000)
    /\ InRange(c.inputs.monthlyKm, 100, 10000)
    /\ InRange(c.inputs.vehicleCount, 1, 50)
    /\ c.inputs.ppaModel \in {"exchange", "traditional", "lease"}

(***************************************************************************)
(* C20: calculateSavings is called only in a validateAndCalculate run, and *)
(* only with dieselCost in [50000, 1000000], monthlyKm in [100, 10000],    *)
(* vehicleCount in [1, 50] and a model among exchange, traditional, lease, *)
(* which are the values of the controls; a run that finds an input         *)
(* missing, not numeric or out of range makes no calculation and leaves    *)
(* the displayed results as they were.                                     *)
(***************************************************************************)
C20_CalculatesOnlyValidInputs ==
    [][/\ calc'.calls > calc.calls =>
             /\ calc'.calls = calc.calls + 1 /\ calc'.runs = calc.runs + 1
             /\ InputsInRange(calc')
             /\ calc'.lastArgs = [dieselCost |-> calc'.inputs.currentDiesel[1],
                                  monthlyKm |-> calc'.inputs.monthlyKm[1],
                                  vehicleCount |-> calc'.inputs.vehicleCount[1],
                                  ppaModel |-> calc'.inputs.ppaModel]
       /\ (calc'.runs > calc.runs /\ ~InputsInRange(calc')) =>
             /\ calc'.calls = calc.calls
             /\ calc'.results = calc.results
             /\ calc'.lastResult = calc.lastResult]_vars

C20_InvalidInputKeepsResults ==
    /\ calc.runs = 2 /\ calc.calls = 1
    /\ calc.inputs.vehicleCount = <<51>>
    /\ calc.pending = {}
    /\ "vehicleCount" \in calc.errors
    /\ calc.results.shown /\ calc.results.currentCost = 250000

(***************************************************************************)
(* C21: validateEmail, validatePhone, validateName and sanitizeInput never *)
(* throw; for an argument that is not a string (null, undefined, a number, *)
(* an array) the three validators return false and sanitizeInput returns   *)
(* the empty string.                                                       *)
(***************************************************************************)
C21_ValidatorsNeverThrow ==
    probe.fn # "none" =>
        /\ ~probe.result.threw
        /\ probe.input.type # "string" =>
              probe.result.value = (IF probe.fn = "sanitizeInput" THEN Str(<<>>)
                                    ELSE Bool(FALSE))

\* the string is a prefix of prefixes followed by nine digits, the first of
\* them 1 or 7
PrefixAndSubscriber(str, prefixes) ==
    \E p \in prefixes :
        /\ Len(str) = Len(p) + 9
        /\ \A i \in DOMAIN p : str[i] = p[i]
        /\ str[Len(p) + 1] \in {"1", "7"}
        /\ \A i \in (Len(p) + 1)..Len(str) : str[i] \in Digit

(***************************************************************************)
(* C22 as stated: validatePhone returns true for exactly the strings that, *)
(* once their whitespace is removed, are an optional prefix +254 or 0      *)
(* followed by a 9-digit subscriber number whose first digit is 1 or 7.    *)
(***************************************************************************)
C22_PlusPrefixOrZero ==
    (probe.fn = "validatePhone" /\ probe.input.type = "string") =>
        probe.result =
            Returned(Bool(PrefixAndSubscriber(removeWhitespace(probe.input.chars),
                                              {<<>>, <<"+", "2", "5", "4">>, <<"0">>})))

(***************************************************************************)
(* C22 amended: validatePhone returns true for exactly the strings that,   *)
(* once their whitespace is removed, are an optional prefix +254, 254 or 0 *)
(* followed by a 9-digit subscriber number whose first digit is 1 or 7,    *)
(* and false for every other string; "0712345678" is accepted and "12345"  *)
(* is rejected.                                                            *)
(***************************************************************************)
C22_CountryCodeOrZero ==
    (probe.fn = "validatePhone" /\ probe.input.type = "string") =>
        /\ probe.result =
              Returned(Bool(PrefixAndSubscriber(
                  removeWhitespace(probe.input.chars),
                  {<<>>, <<"+", "2", "5", "4">>, <<"2", "5", "4">>, <<"0">>})))
        /\ probe.input = Str(<<"0">> \o Decimal(712345678)) =>
              probe.result.value = Bool(TRUE)
        /\ probe.input = Str(Decimal(12345)) => probe.result.value = Bool(FALSE)

C22_CountryCodeWithoutPlus ==
    /\ probe.fn = "validatePhone"
    /\ probe.input = Str(<<"2", "5", "4", "7", "1", "2", " ", "3", "4", "5", "6", "7", "8">>)
    /\ probe.result = Returned(Bool(TRUE))

\* the text has none of the five characters and no whitespace at its ends
Sanitized(str) ==
    /\ \A i \in DOMAIN str : str[i] \notin {"<", ">", "\"", "'", "/"}
    /\ str # <<>> => (str[1] \notin Whitespace /\ str[Len(str)] \notin Whitespace)

(***************************************************************************)
(* C23: the result of sanitizeInput has none of the raw characters < > "   *)
(* ' / and no leading or trailing whitespace, for the text of every field  *)
(* as it stands, valid or not; and every field value of the data that      *)
(* collectFormData made for a submission is the result of sanitizeInput on *)
(* the text of the field, so it has neither.                               *)
(***************************************************************************)
C23_FieldValuesSanitized ==
    /\ \A n \in FieldNames : Sanitized(sanitizeInput(Str(form.typed[n])).value.chars)
    /\ \A i \in DOMAIN inflight : \A n \in FieldNames :
          LET data == inflight[i].data
          IN  /\ data.fields[n] = sanitizeInput(Str(data.entries[n])).value.chars
              /\ Sanitized(data.fields[n])

C23_MarkupSubmitted ==
    /\ Len(inflight) = 1
    /\ inflight[1].data.entries["message"] =
          <<" ", "<", "a", " ", "b", "=", "\"", "c", "'", "/", ">", "\n">>
    /\ inflight[1].data.fields["message"] =
          <<"&", "l", "t", ";", "a", " ", "b", "=", "&", "q", "u", "o", "t", ";", "c",
            "&", "#", "x", "2", "7", ";", "&", "#", "x", "2", "F", ";", "&", "g", "t", ";">>
    /\ inflight[1].data.entries["name"] = <<" ", "A", "l", "\t">>
    /\ inflight[1].data.fields["name"] = <<"A", "l">>
    /\ inflight[1].data.fields["email"] =
          <<"o", "&", "#", "x", "2", "7", ";", "k", "&", "#", "x", "2", "F", ";", "x",
            "@", "b", ".", "k", "e">>

\* The navigateTo executions still to come when the user does nothing more:
\* one for every queued load or hashchange event, and one more when the
\* fragment is no page key, because the navigateTo that finds it rewrites it
NavigationsToCome(queue, fragment) ==
    Cardinality({i \in DOMAIN queue : queue[i].kind \in {"load", "hashchange"}})
    + (IF fragment \in PageKeys THEN 0 ELSE 1)

(***************************************************************************)
(* C24: the navigation cascade terminates. Every navigateTo execution that *)
(* handles a queued event leaves one execution less to come; a click,      *)
(* which executes navigateTo itself, adds at most one execution to come;   *)
(* a fragment typed by the user adds at most two, the one that handles its *)
(* hashchange event and, for a fragment that is no page key, one further;  *)
(* nothing else adds any. When none is left to come, no navigation event   *)
(* is pending and the fragment equals currentPage.                         *)
(***************************************************************************)
C24_CascadeTerminates ==
    [][LET before == NavigationsToCome(tasks, hash)
           after == NavigationsToCome(tasks', hash')
       IN  /\ (NavigateStep /\ navSource' = "event") => after = before - 1
           /\ (NavigateStep /\ navSource' = "click") => after <= before + 1
           /\ ~NavigateStep =>
                 /\ after <= before + 2
                 /\ after > before => (hash' # hash /\ currentPage' = currentPage)
                 /\ (after > before + 1) => hash' \notin PageKeys
           /\ (after = 0 /\ lastRequested' # "none") =>
                 (tasks' = <<>> /\ hash' = currentPage')]_vars

C24_OneFurtherNavigation ==
    /\ lastRequested = "contact" /\ currentPage = "contact" /\ hash = "contact"
    /\ content = "home"
    /\ navSource = "click"
    /\ tasks = <<[kind |-> "hashchange"]>>
    /\ NavigationsToCome(tasks, hash) = 1

(***************************************************************************)
(* C25: a handleFormSubmission call that passes the rate check takes one   *)
(* unit of the 'form_submission' quota before it validates, whether the    *)
(* fields are valid or not; so the counter of a window never exceeds 3,    *)
(* and a call made when 3 units are taken, also one for a valid form after *)
(* three invalid attempts, is refused with the rate-limit notification: it *)
(* validates nothing and submits nothing.                                  *)
(***************************************************************************)
C25_AttemptTakesQuota ==
    form.exists =>
        LET used == rateLimitStore["form_submission"].count
            r == handleFormSubmission(St)
        IN  /\ used <= 3
            /\ used < 3 =>
                  /\ r.rateLimitStore["form_submission"].count = used + 1
                  /\ r.form.errors = InvalidFields(form)
                  /\ InvalidFields(form) # {} =>
                        (r.notification = "invalid" /\ r.inflight = inflight)
                  /\ InvalidFields(form) = {} => Len(r.inflight) = Len(inflight) + 1
            /\ used = 3 =>
                  /\ r.notification = "rate"
                  /\ Len(r.notifTimers) = Len(notifTimers) + 1
                  /\ r.rateLimitStore = rateLimitStore
                  /\ r.form = form
                  /\ r.inflight = inflight

C25_ValidAttemptRefused ==
    /\ formHandlers = 1
    /\ rateLimitStore["form_submission"].count = 3
    /\ form.values = AllValid
    /\ notification = "rate"
    /\ form.errors = {} /\ ~form.loading
    /\ inflight = <<>> /\ microtasks = <<>> /\ Len(notifTimers) = 1

\* the five result elements show calculateSavings of the values now in the controls
ShowsCurrentInputs(c) ==
    LET results == calculateSavings([dieselCost |-> c.inputs.currentDiesel[1],
                                     monthlyKm |-> c.inputs.monthlyKm[1],
                                     vehicleCount |-> c.inputs.vehicleCount[1],
                                     ppaModel |-> c.inputs.ppaModel])
    IN  /\ c.results.shown
        /\ c.results.currentCost = results.currentMonthlyCost
        /\ c.results.newCost = results.newMonthlyCost
        /\ c.results.savings = results.monthlySavings
        /\ c.results.savingsPercent = percentText(results.savingsPercent)
        /\ c.results.annualSavings = results.annualSavings

\* the calculator page is displayed with four valid inputs, and no timer of a
\* debounced listener is running
QuietAndValid(c) == c.exists /\ calcMounted /\ c.pending = {} /\ InputsInRange(c)

\* this step is a change event of the select of the displayed page
SelectChanged ==
    /\ calc.exists /\ calc'.exists /\ content' = content
    /\ calc'.inputs.ppaModel # calc.inputs.ppaModel

(***************************************************************************)
(* C26 as stated: on the calculator page, once the input activity has      *)
(* paused for the quiet period (no debounce timer is running) or the model *)
(* select has changed, and all four inputs are valid, the displayed        *)
(* figures are calculateSavings of the current input values, after any     *)
(* number of page mounts and input events.                                 *)
(***************************************************************************)
C26_DisplayFollowsInputs ==
    [][/\ QuietAndValid(calc) => ShowsCurrentInputs(calc)
       /\ (SelectChanged /\ InputsInRange(calc')) => ShowsCurrentInputs(calc')]_vars

(***************************************************************************)
(* C26 amended: the same, provided the latest validateAndCalculate run was *)
(* not refused by the rate limit of 10 runs per window, of which every     *)
(* page mount and every run after an input or change event takes one; a    *)
(* refused run leaves the displayed figures as they were.                  *)
(***************************************************************************)
C26_DisplayFollowsAllowedRuns ==
    [][/\ (QuietAndValid(calc) /\ calc.lastRun # "refused") => ShowsCurrentInputs(calc)
       /\ (QuietAndValid(calc') /\ calc'.lastRun # "refused") => ShowsCurrentInputs(calc')
       /\ (SelectChanged /\ InputsInRange(calc') /\ calc'.lastRun # "refused") =>
             ShowsCurrentInputs(calc')
       /\ (calc'.runs > calc.runs /\ calc'.lastRun = "refused") =>
             calc'.results = calc.results]_vars

C26_FiguresFollowedTyping ==
    /\ calc.runs = 2 /\ calc.calls = 2 /\ calc.lastRun = "calculated"
    /\ calc.pending = {}
    /\ calc.inputs.currentDiesel = <<1000000>>
    /\ calc.results.currentCost = 1000000
    /\ calc.results.newCost = 120000
    /\ calc.results.savings = 880000
    /\ calc.results.savingsPercent = 88

(***************************************************************************)
(* C27: at most one global notification is displayed at any time, the one  *)
(* shown last: showNotification removes the existing notification before   *)
(* it adds the new one. The 5 s auto-remove timer of an earlier            *)
(* notification removes no notification shown later: when a timer runs,    *)
(* the notifications of the timers started after it stay as they were, and *)
(* the displayed notification stays when it is not the timer's own.        *)
(***************************************************************************)
C27_OneNotification ==
    [][/\ Cardinality(displayedNotifications(notifTimers')) <= 1
       /\ displayedNotifications(notifTimers') \subseteq {Len(notifTimers')}
       /\ (notification' # "none") = (displayedNotifications(notifTimers') # {})
       /\ (notifTimers # <<>> /\ Len(notifTimers') = Len(notifTimers) - 1) =>
             /\ \A i \in DOMAIN notifTimers' :
                   notifTimers'[i].current = notifTimers[i + 1].current
             /\ ~notifTimers[1].current =>
                   /\ notification' = notification
                   /\ notifOrigin' = notifOrigin]_vars

\* the timer of an earlier notification is due while a later one is displayed
C27_EarlierTimerDue ==
    /\ Len(notifTimers) = 2
    /\ ~notifTimers[1].current /\ notifTimers[1].after = 0
    /\ notifTimers[2].current
    /\ notification = "success" /\ microtasks = <<>>

\* the handleFormSubmission calls that are waiting for the simulated call
SubmissionsWaiting(flight, queue) ==
    Len(flight) + Cardinality({i \in DOMAIN queue : queue[i].kind = "submit"})

\* this step resumes the handleFormSubmission call at the head of the queue
SubmissionEnds ==
    /\ microtasks # <<>> /\ Head(microtasks).kind = "submit"
    /\ microtasks' = Tail(microtasks)

(***************************************************************************)
(* C28: each submission attempt that passes validation ends with exactly   *)
(* one outcome notification. The attempt waits for its simulated call; it  *)
(* stops waiting only in the step that resumes it, and that step shows one *)
(* notification: success when the call resolved, error when it rejected.   *)
(* No other step shows an outcome notification. The form of the attempt is *)
(* reset in that step when the call resolved, and keeps the entered values *)
(* when it rejected.                                                       *)
(***************************************************************************)
C28_OneOutcomePerSubmission ==
    [][/\ SubmissionEnds =>
             LET rec == Head(microtasks)
             IN  /\ SubmissionsWaiting(inflight', microtasks') =
                        SubmissionsWaiting(inflight, microtasks) - 1
                 /\ Len(notifTimers') = Len(notifTimers) + 1
                 /\ notification' = IF rec.ok THEN "success" ELSE "error"
                 /\ (rec.ok /\ rec.attached) =>
                        (form'.values = AllEmpty /\ form'.typed = NoText)
                 /\ (~rec.ok \/ ~rec.attached) =>
                        (form'.values = form.values /\ form'.typed = form.typed)
       /\ ~SubmissionEnds =>
             /\ SubmissionsWaiting(inflight', microtasks') >=
                    SubmissionsWaiting(inflight, microtasks)
             /\ Len(notifTimers') > Len(notifTimers) =>
                    notification' \notin {"success", "error"}]_vars

\* the simulated call of a valid submission rejected: the error notification
\* is displayed and the form still holds the entered values
C28_FailureKeepsValues ==
    /\ formHandlers = 1 /\ form.exists
    /\ notification = "error" /\ notifOrigin = "attached"
    /\ form.values = AllValid /\ form.typed # NoText
    /\ ~form.loading
    /\ inflight = <<>> /\ microtasks = <<>> /\ Len(notifTimers) = 1

\* this step is a checkRateLimit call for the key k
CalledFor(k) == Len(rateCalls'.sinceClear[k]) = Len(rateCalls.sinceClear[k]) + 1

\* times of a later check: at once, a moment later, half an interval later,
\* and when the entries of now have expired
LaterTimes == {now, now + 1, now + HalfIntervalMs, now + WindowMs + 1}

\* a check for the key j at the time t gives the same result and leaves the
\* same entry for j, whether it starts from the store a or from the store b
SameLaterCheck(a, b, j, t) ==
    \A m \in 1..MaxLimit :
        /\ checkRateLimit(a, j, m, t).ok = checkRateLimit(b, j, m, t).ok
        /\ checkRateLimit(a, j, m, t).store[j] = checkRateLimit(b, j, m, t).store[j]

(***************************************************************************)
(* C29: the counters of different action keys are independent within a     *)
(* window. A checkRateLimit call for one key leaves the entry of another   *)
(* key, its count included, as it is while that entry is within its        *)
(* window (at most 60 s old), and the result of a later check for the      *)
(* other key, with the count it leaves, is what it would be without the    *)
(* call. An entry older than 60 s is past its window: the cleaning loop of *)
(* a call for any key deletes it, as the later check itself would.         *)
(***************************************************************************)
C29_OtherKeyUnaffected ==
    [][\A k \in RateKeys : CalledFor(k) =>
          \A j \in RateKeys \ {k} :
              /\ rateLimitStore'[j] = IF j \in Expired(rateLimitStore, now)
                                      THEN NoEntry ELSE rateLimitStore[j]
              /\ \A t \in LaterTimes :
                    SameLaterCheck(rateLimitStore', rateLimitStore, j, t)]_vars

\* a call for one key has just been counted while the other key is refused
C29_OneKeyRefusedOtherCounted ==
    /\ rateCalls.limit = 2
    /\ rateCalls.last = [key |-> "calculator_usage", ok |-> TRUE, evicted |-> {}]
    /\ rateLimitStore["form_submission"].count = 2
    /\ rateCalls.sinceClear["form_submission"] = <<TRUE, TRUE, FALSE>>
    /\ rateLimitStore["calculator_usage"].count = 1
    /\ rateLimitStore["calculator_usage"].timestamp = now

====
